---------------------------- MODULE Spec2Model ----------------------------
(***************************************************************************)
(* Model of the Authenticator (login, authorize gates) of the server's     *)
(* multi-provider authentication orchestrator.                             *)
(*                                                                         *)
(* A request is a sequential control flow that is suspended at each await  *)
(* of an external store call; one action models the code between two       *)
(* suspension points.  What a request did is recorded, in order, in its    *)
(* effects: the checks it evaluated, the metric increments, the session    *)
(* write, and its terminal response action.                                *)
(***************************************************************************)
EXTENDS Naturals, Sequences, FiniteSets

(***************************************************************************)
(* Bounds of the model.                                                    *)
(***************************************************************************)
MaxProviders == 2
MaxUsers == 1
MaxRawLen == 3
MaxCurrentLen == 2
\* the number of validating keypairs of the key ring
MaxValidating == 2

(***************************************************************************)
(* Values.                                                                 *)
(***************************************************************************)
\* A query parameter that is not given (req.query.x is undefined).
Absent == "<absent>"
\* JavaScript falsiness of an optional string.
Falsy(s) == s \in {Absent, ""}
\* req.query.x?.toString() || ""
OrEmpty(s) == IF Falsy(s) THEN "" ELSE s

NoUser == ""
Users == {"u1", "u2"}
Orgs == {"o1"}
Hosts == {"github.com", "gitlab.example"}
UnknownHost == "unknown.example"
DashboardUrl == "https://gitpod.example/workspaces"

\* The trust metadata of an auth provider (authProvider.info and .params).
ProviderInfos ==
    [host : Hosts, verified : BOOLEAN, organizationId : Orgs \cup {""},
     ownerId : {"", "u1"}, builtin : BOOLEAN]

(***************************************************************************)
(* Messages are sequences of words, so that "contains" is decidable.       *)
(***************************************************************************)
Contains(msg, phrase) ==
    \E i \in 0..Len(msg) :
        /\ i + Len(phrase) <= Len(msg)
        /\ \A j \in 1..Len(phrase) : msg[i + j] = phrase[j]

MsgBadRequest == <<"Bad", "request", ":", "missing", "parameters", ".">>
\* Mutant: the wording of the disallowed-provider denial.
MsgLoginDenied(host) ==
    <<"Login", "with", "\"", host, "\"", "is", "not", "allowed", ".">>
MsgLoginNotPermitted(host) ==
    <<"Login", "with", "\"", host, "\"", "is", "not", "permitted", ".">>
MsgLoginNotAllowed(host) ==
    <<"Login", "with", host, "is", "not", "allowed", ".">>
MsgNoSession ==
    <<"No", "session", "found", ".", "Please", "refresh", "the", "browser", ".">>
MsgNotAuthenticated == <<"Not", "authenticated", ".", "Please", "login", ".">>
MsgAuthorizationNotPermitted(host) ==
    <<"Authorization", "with", "\"", host, "\"", "is", "not", "permitted", ".">>
\* `Failed to disconnect a provider: ${error && error.message ? error.message
\* : "unknown reason"}`; an error without message has the message << >>
MsgFailedToDisconnect(error) ==
    <<"Failed", "to", "disconnect", "a", "provider", ":">>
    \o (IF error.message = << >> THEN <<"unknown", "reason">> ELSE error.message)

(***************************************************************************)
(* Scopes.  A scope name is a word without comma or blank.  The raw scopes *)
(* parameter is a sequence of characters, abstracted to the tokens ",",    *)
(* " " and whole scope names; the parameters considered hold at most one   *)
(* name between two commas.                                                *)
(***************************************************************************)
\* The scope names, listed in ascending order of their UTF-16 code units.
ScopeOrder == <<"email", "repo", "user">>
ScopeNames == {ScopeOrder[i] : i \in 1..Len(ScopeOrder)}
ScopeRank(s) == CHOOSE i \in 1..Len(ScopeOrder) : ScopeOrder[i] = s
\* the default comparison of Array.prototype.sort on these names
ScopeLess(a, b) == ScopeRank(a) < ScopeRank(b)

RECURSIVE Split(_)
\* String.prototype.split(","): the pieces between the commas
Split(raw) ==
    IF \A i \in 1..Len(raw) : raw[i] # ","
    THEN <<raw>>
    ELSE LET k == CHOOSE i \in 1..Len(raw) :
                      raw[i] = "," /\ \A j \in 1..(i - 1) : raw[j] # ","
         IN  <<SubSeq(raw, 1, k - 1)>> \o Split(SubSeq(raw, k + 1, Len(raw)))

RECURSIVE Trim(_)
\* String.prototype.trim(): leading and trailing blanks removed
Trim(piece) ==
    IF piece = << >> THEN << >>
    ELSE IF Head(piece) = " " THEN Trim(Tail(piece))
    ELSE IF piece[Len(piece)] = " " THEN Trim(SubSeq(piece, 1, Len(piece) - 1))
    ELSE piece

\* scopes.split(",").map((s) => s.trim()).filter((s) => s.length > 0)
ParseScopes(raw) ==
    LET trimmed == [i \in 1..Len(Split(raw)) |-> Trim(Split(raw)[i])]
        kept == SelectSeq(trimmed, LAMBDA t : Len(t) > 0)
    IN  [i \in 1..Len(kept) |-> kept[i][1]]

\* A raw parameter with at most one scope name between two commas.
WellFormedRaw(raw) ==
    \A i \in 1..Len(Split(raw)) : Len(Trim(Split(raw)[i])) <= 1

RECURSIVE SeqsUpTo(_, _)
SeqsUpTo(S, n) ==
    IF n = 0 THEN {<< >>}
    ELSE LET shorter == SeqsUpTo(S, n - 1)
         IN  shorter \cup {Append(s, x) : s \in {t \in shorter : Len(t) = n - 1}, x \in S}

RECURSIVE InsertUnique(_, _)
\* Set.prototype.add on the insertion-ordered set s: a no-op if x is in it
InsertUnique(s, x) ==
    IF \E i \in 1..Len(s) : s[i] = x THEN s ELSE Append(s, x)

RECURSIVE SetOf(_, _)
\* new Set(a), then b.forEach((s) => set.add(s)): acc extended by xs
SetOf(acc, xs) ==
    IF xs = << >> THEN acc ELSE SetOf(InsertUnique(acc, Head(xs)), Tail(xs))

RECURSIVE SortInsert(_, _)
SortInsert(sorted, x) ==
    IF sorted = << >> THEN <<x>>
    ELSE IF ScopeLess(x, Head(sorted)) THEN <<x>> \o sorted
    ELSE <<Head(sorted)>> \o SortInsert(Tail(sorted), x)

RECURSIVE Sort(_)
\* Array.prototype.sort() with the default comparison
Sort(s) == IF s = << >> THEN << >> ELSE SortInsert(Sort(Tail(s)), Head(s))

\* Mutant: the set of both lists in insertion order, not sorted.
mergeScopesUnsorted(a, b) == SetOf(SetOf(<< >>, a), b)

\* mergeScopes(a, b)
mergeScopes(a, b) == Sort(SetOf(SetOf(<< >>, a), b))

\* authProvider.info.requirements: absent for some providers
HasRequirements(host) == host = "github.com"
\* authProvider.info.requirements.default
DefaultScopes(host) == IF host = "github.com" THEN <<"user", "email">> ELSE << >>

\* this.config.hostUrl.asSorry(message)
getSorryUrl(message) == [page |-> "sorry", message |-> message]

(***************************************************************************)
(* State.                                                                  *)
(***************************************************************************)
VARIABLES
    providers,       \* hostContextProvider: the configured providers, in order
    userCount,       \* userDb: number of users
    disableDynamic,  \* config.disableDynamicAuthProviderLogin
    authFlow,        \* the session's AuthFlowState: << >> or <<state>>
    req,             \* the requests in flight, per request slot
    pki,             \* config.auth.pki: the signing and the validating keypairs
    keyRes,          \* the outcome of the key resolution of the token at hand
    neg,             \* a scope negotiation: its inputs and its results
    callbackPaths,   \* authProvider.authCallbackPath, per provider host
    page,            \* the switch-to-pay-as-you-go page open in the browser
    stored,          \* the PageState kept in the local storage
    server           \* what the page's server calls act on

vars ==
    <<providers, userCount, disableDynamic, authFlow, req, pki, keyRes, neg,
      callbackPaths, page, stored, server>>
\* the state of the gates, of the token verification, of a scope negotiation
configVars == <<callbackPaths>>
pageVars == <<page, stored, server>>
gateVars ==
    <<providers, userCount, disableDynamic, authFlow, req, configVars, pageVars>>
keyVars == <<pki, keyRes>>
otherVars == <<keyVars, neg, configVars, pageVars>>
\* the state of the authenticator
authVars ==
    <<providers, userCount, disableDynamic, authFlow, req, pki, keyRes, neg,
      callbackPaths>>

ReqIds == {"r1", "r2"}

\* getAuthProviderForHost(host) === undefined
NoProvider ==
    [host |-> "", verified |-> FALSE, organizationId |-> "", ownerId |-> "",
     builtin |-> FALSE]

Idle ==
    [kind |-> "idle", pc |-> "idle", session |-> FALSE, user |-> NoUser,
     host |-> Absent, returnTo |-> Absent, scopes |-> << >>, override |-> Absent,
     ap |-> NoProvider, target |-> "", wanted |-> << >>, url |-> << >>,
     effects |-> << >>]

\* Events of a request.
Ev(op, arg) == [op |-> op, arg |-> arg]
EvCheck(name) == Ev("check", name)
EvRedirect(url) == Ev("redirect", url)
EvNext == Ev("next", "")
EvThrow == Ev("throw", "")
EvMetric(status, host) == Ev("metric", [status |-> status, host |-> host])
EvAttach(state) == Ev("attach", state)
EvMembership(check, role) == Ev("membership", [check |-> check, role |-> role])
\* authProvider.authorize(req, res, next) and (req, res, next, scopes)
EvDelegate(host) ==
    Ev("delegate", [host |-> host, withScopes |-> FALSE, scopes |-> << >>])
EvDelegateScopes(host, scopes) ==
    Ev("delegate", [host |-> host, withScopes |-> TRUE, scopes |-> scopes])

Done(q, evs) == [q EXCEPT !.pc = "done", !.effects = q.effects \o evs]
Goto(q, pc, evs) == [q EXCEPT !.pc = pc, !.effects = q.effects \o evs]

\* Mutant: a lookup that fails counts as a check that passed.
LookupFailedOpen(q, call) == Goto(q, "attach", <<Ev("throw", call)>>)

\* an awaited store lookup rejects: no handler catches it, the exception
\* leaves authenticate / authorize
LookupFailed(q, call) == Done(q, <<Ev("throw", call)>>)

(***************************************************************************)
(* Provider registry.                                                      *)
(***************************************************************************)
\* hostContextProvider.get(host): the contexts registered for host
ProvidersForHost(host) == SelectSeq(providers, LAMBDA p : p.host = host)
\* host && (await this.getAuthProviderForHost(host))
getAuthProviderForHost(host) ==
    IF Falsy(host) \/ ProvidersForHost(host) = << >>
    THEN NoProvider
    ELSE Head(ProvidersForHost(host))

\* Mutant: the returnTo parameter is taken as it comes.
ReturnToAsGiven(returnTo) == returnTo

\* req.query.returnTo?.toString() || this.config.hostUrl.asDashboard().toString()
ReturnToOrDashboard(returnTo) == IF Falsy(returnTo) THEN DashboardUrl ELSE returnTo

\* Mutant: only the first configured provider is looked at.
hasStaticFirstProvider == Len(providers) > 0 /\ providers[1].builtin = TRUE

\* isInSetupMode, its synchronous part: is any configured provider builtin
hasAnyStaticProviders == \E i \in 1..Len(providers) : providers[i].builtin = TRUE

\* Mutant: one user still counts as none.
noUserOffByOne(count) == count <= 1

\* (await this.userDb.getUserCount()) === 0
noUser(count) == count = 0

\* isInSetupMode, when the store reports count
isInSetupMode(count) == IF hasAnyStaticProviders THEN FALSE ELSE noUser(count)

(***************************************************************************)
(* URLs and callback paths.  A URL is a string, abstracted to a sequence   *)
(* of pieces; one string starts with another when its pieces do.           *)
(***************************************************************************)
\* String.prototype.startsWith
StartsWith(url, prefix) ==
    Len(prefix) <= Len(url) /\ SubSeq(url, 1, Len(prefix)) = prefix
\* "/auth/"
AuthPath == <<"/auth/">>
\* the callback paths a provider can be configured with: "/auth/git",
\* "/auth/github" and, outside of "/auth/", "/hooks/git"
CallbackPaths ==
    {<<"/auth/", "git">>, <<"/auth/", "git", "hub">>, <<"/hooks/", "git">>}
\* the URLs of the incoming requests
Urls ==
    {<<"/auth/", "git", "hub", "/callback">>, <<"/auth/", "git", "/callback">>,
     <<"/auth/", "other">>, <<"/hooks/", "git", "/callback">>, <<"/api/", "user">>}
DefaultCallbackPaths ==
    [h \in Hosts |-> IF h = "github.com" THEN <<"/auth/", "git", "hub">>
                     ELSE <<"/auth/", "git">>]

(***************************************************************************)
(* Token verification: the key ring.                                       *)
(***************************************************************************)
\* the ids of the configured keypairs; a keypair's public key
KeyIds == {"k1", "k2", "k3"}
PublicKeyOf(id) ==
    CASE id = "k1" -> "pem-k1" [] id = "k2" -> "pem-k2" [] id = "k3" -> "pem-k3"
Keypairs == {[id |-> id, publicKey |-> PublicKeyOf(id)] : id \in KeyIds}
PkiConfigs == [signing : Keypairs, validating : SeqsUpTo(Keypairs, MaxValidating)]
\* [this.config.auth.pki.signing, ...this.config.auth.pki.validating]
keypairs(cfg) == <<cfg.signing>> \o cfg.validating
\* names that every object literal answers to, through Object.prototype
ObjectPrototypeKeys == {"constructor", "toString"}
InheritedMember(name) ==
    CASE name = "constructor" -> "function Object"
      [] name = "toString" -> "function toString"
\* publicKeysByID[keyID] on the object the reduce fills, starting from {}: the
\* public key of the last keypair with that id, else what the object
\* inherits under that name, else undefined
publicKeysByID(cfg, keyID) ==
    LET own == {i \in 1..Len(keypairs(cfg)) : keypairs(cfg)[i].id = keyID}
    IN  IF own # {}
        THEN keypairs(cfg)[CHOOSE i \in own : \A j \in own : j <= i].publicKey
        ELSE IF keyID \in ObjectPrototypeKeys
        THEN InheritedMember(keyID)
        ELSE Absent
\* header.kid of a token: absent, empty, or a name
Kids == KeyIds \cup {Absent, ""} \cup ObjectPrototypeKeys
MsgNoKid == "JWT token does not contain kid (key id) property."
MsgUnknownKid == "JWT was signed with an unknown key id"
\* the outcome of secretOrKeyProvider for a token with this kid: an error is
\* thrown, or done is called with the key
secretOrKey(cfg, keyID) ==
    IF Falsy(keyID)
    THEN Ev("throw", MsgNoKid)
    ELSE IF Falsy(publicKeysByID(cfg, keyID))
    THEN Ev("throw", MsgUnknownKid)
    ELSE Ev("done", publicKeysByID(cfg, keyID))
\* an installation with one signing key and no validating key
SigningOnly ==
    [signing |-> [id |-> "k1", publicKey |-> PublicKeyOf("k1")], validating |-> << >>]
\* no token is being verified
NoKeyRes == [kid |-> Absent, outcome |-> Ev("idle", "")]

\* no negotiation is at hand
NoNegotiation ==
    [pc |-> "idle", parsed |-> << >>, current |-> << >>, override |-> FALSE,
     requirements |-> [present |-> FALSE, default |-> << >>],
     result |-> << >>, again |-> << >>]

(***************************************************************************)
(* Initial state: a fresh installation, no request in flight.              *)
(***************************************************************************)
(***************************************************************************)
(* The switch-to-pay-as-you-go page (SwitchToPAYG).  The page is a React   *)
(* component: its effect runs after every render that changed one of its   *)
(* dependencies, and pageParams, parsed anew at each render, is one of     *)
(* them, so every change of state schedules the effect again; the clean-up *)
(* of the run before sets that run's cancelled flag.  A cancelled run goes *)
(* on up to its next look at the flag.                                     *)
(***************************************************************************)
\* the cancelled runs that are followed at a time
MaxZombies == 1
\* for (let i = 1; i <= 10; i++)
MaxPolls == 10

KEY_PERSONAL_SUB == "personalSubscription"
KEY_TEAM1_SUB == "teamSubscription"
KEY_TEAM2_SUB == "teamSubscription2"
SubscriptionTypes == {KEY_PERSONAL_SUB, KEY_TEAM1_SUB, KEY_TEAM2_SUB}

\* location.search, by parameter; Absent is what params.get returns for a
\* parameter that is not given
NoSearch ==
    [personalSubscription |-> Absent, teamSubscription |-> Absent,
     teamSubscription2 |-> Absent, setup_intent |-> Absent,
     redirect_status |-> Absent]
Searches ==
    {NoSearch,
     [NoSearch EXCEPT !.personalSubscription = "sub1"],
     [NoSearch EXCEPT !.teamSubscription = "sub1"],
     [NoSearch EXCEPT !.personalSubscription = "sub1",
                      !.setup_intent = "seti_1", !.redirect_status = "succeeded"],
     [NoSearch EXCEPT !.teamSubscription2 = "sub1",
                      !.setup_intent = "seti_1", !.redirect_status = "succeeded"],
     [NoSearch EXCEPT !.personalSubscription = "sub1",
                      !.setup_intent = "seti_1", !.redirect_status = "failed"],
     [NoSearch EXCEPT !.teamSubscription2 = "sub1",
                      !.redirect_status = "succeeded"]}

\* parseSearchParams found no subscription parameter: pageParams is undefined
NoParams ==
    [type |-> Absent, oldSubscriptionOrTeamId |-> Absent, setupIntentId |-> Absent]

\* (redirect_status === "succeeded" ? params.get("setup_intent") : undefined)
\* || undefined
setupIntentIdOf(search) ==
    IF search.redirect_status = "succeeded" /\ ~Falsy(search.setup_intent)
    THEN search.setup_intent
    ELSE Absent

\* the keys in the order of the for loop
ParamKeys == <<KEY_TEAM1_SUB, KEY_TEAM2_SUB, KEY_PERSONAL_SUB>>

RECURSIVE parseFrom(_, _)
parseFrom(search, i) ==
    IF i > Len(ParamKeys)
    THEN NoParams
    ELSE IF ~Falsy(search[ParamKeys[i]])
    THEN [type |-> ParamKeys[i],
          oldSubscriptionOrTeamId |-> search[ParamKeys[i]],
          setupIntentId |-> setupIntentIdOf(search)]
    ELSE parseFrom(search, i + 1)

parseSearchParams(search) == parseFrom(search, 1)

\* PageState, and the default handed to useLocalStorage
Phases == {"call-to-action", "trigger-signup", "wait-for-signup", "cleanup", "done"}
DefaultPageState ==
    [phase |-> "call-to-action", attributionId |-> Absent,
     oldSubscriptionId |-> Absent]

\* AttributionId.render({kind: "user", userId}) and ({kind: "team", teamId})
UserAttributionId == "user:u1"
TeamAttributionId(teamId) == IF teamId = "sub1" THEN "team:sub1" ELSE "team:"

\* what the server says of the old subscription: there is none, it is
\* active, or it is cancelled or not active any more
SubscriptionStatuses == {"missing", "active", "ended"}

\* derivedAttributionId, after the switch on the type
derivedAttributionId(params, status) ==
    IF status = "missing" THEN Absent
    ELSE IF params.type = KEY_PERSONAL_SUB THEN UserAttributionId
    ELSE IF params.type = KEY_TEAM2_SUB
    THEN TeamAttributionId(params.oldSubscriptionOrTeamId)
    ELSE Absent
\* oldSubscriptionId, after the switch on the type: ts2.id for a team
\* subscription of the second kind, and unassigned when there is none
derivedOldSubscriptionId(params, status) ==
    IF params.type = KEY_TEAM2_SUB
    THEN IF status = "missing" THEN Absent ELSE "ts2-1"
    ELSE params.oldSubscriptionOrTeamId

\* the messages of setErrorMessage
MsgTypeNotSet == "Error during params parsing: type not set!"
MsgOldSubscriptionNotSet ==
    "Error during params parsing: oldSubscriptionOrTeamId not set!"
MsgCouldNotSubscribe == "Could not subscribe to Stripe."
MsgCouldNotFind == "Could not find the subscription."

\* a run of the asynchronous part of the effect
NoRun ==
    [kind |-> "none", pc |-> "done", cancelled |-> FALSE, stale |-> FALSE,
     i |-> 0, polled |-> "", attributionId |-> Absent,
     setupIntentId |-> Absent, effects |-> << >>]

\* the page before it is opened
NoPage ==
    [loaded |-> FALSE, mounted |-> FALSE, search |-> NoSearch,
     params |-> NoParams, errorMessage |-> Absent,
     showBillingSetupModal |-> FALSE, pendingStripeSubscription |-> FALSE,
     effect |-> "ran", run |-> NoRun, zombies |-> << >>]
\* the server: the Stripe subscription of the attribution id ("none",
\* "creating" once a signup was accepted, "active"), and the cancel call
NoServer == [stripe |-> "none", cancel |-> "none"]

PageNotLoaded ==
    /\ page = NoPage
    /\ stored = DefaultPageState
    /\ server = NoServer

Init ==
    /\ providers = << >>
    /\ userCount = 0
    /\ disableDynamic \in BOOLEAN
    /\ authFlow = << >>
    /\ req = [r \in ReqIds |-> Idle]
    /\ pki = SigningOnly
    /\ keyRes = NoKeyRes
    /\ neg = NoNegotiation
    /\ callbackPaths = DefaultCallbackPaths
    /\ PageNotLoaded

(***************************************************************************)
(* Environment.                                                            *)
(***************************************************************************)
AddProvider(p) ==
    /\ Len(providers) < MaxProviders
    /\ ProvidersForHost(p.host) = << >>
    /\ providers' = Append(providers, p)
    /\ UNCHANGED <<userCount, disableDynamic, authFlow, req, otherVars>>

AddUser ==
    /\ userCount < MaxUsers
    /\ userCount' = userCount + 1
    /\ UNCHANGED <<providers, disableDynamic, authFlow, req, otherVars>>

\* The response was delivered; the slot can take the next request.
Finish(r) ==
    /\ req[r].pc = "done"
    /\ req' = [req EXCEPT ![r] = Idle]
    /\ UNCHANGED <<providers, userCount, disableDynamic, authFlow, otherVars>>

(***************************************************************************)
(* authenticate (login flow).                                              *)
(***************************************************************************)
\* Mutant: the session is required before the provider is looked at.
LoginChecksSessionFirst ==
    <<"ValidateParams", "RequireSession", "RejectOrgProvider",
      "RejectDisallowedDynamicProvider">>

\* The checks before the trust check, in the order of their if statements.
LoginChecks ==
    <<"ValidateParams", "RejectOrgProvider", "RejectDisallowedDynamicProvider",
      "RequireSession">>

\* !host || !authProvider
MissingLoginParams(q) == OrEmpty(q.host) = "" \/ q.ap = NoProvider
\* Mutant: only unverified organizational providers are rejected.
IsUnverifiedOrgProvider(ap) == ap.organizationId # "" /\ ~ap.verified

\* authProvider.info.organizationId
IsOrgProvider(ap) == ap.organizationId # ""
\* this.config.disableDynamicAuthProviderLogin && !authProvider.params.builtin
DynamicLoginDisallowed(ap) == disableDynamic /\ ~ap.builtin

LoginCheckFails(c, q) ==
    CASE c = "ValidateParams" -> MissingLoginParams(q)
      [] c = "RejectOrgProvider" -> IsOrgProvider(q.ap)
      [] c = "RejectDisallowedDynamicProvider" -> DynamicLoginDisallowed(q.ap)
      [] c = "RequireSession" -> ~q.session

\* what the branch of a failing check does
LoginDenial(c, q) ==
    CASE c = "ValidateParams" -> <<EvRedirect(getSorryUrl(MsgBadRequest))>>
      [] c = "RejectOrgProvider" ->
            <<EvRedirect(getSorryUrl(MsgLoginNotPermitted(OrEmpty(q.host))))>>
      [] c = "RejectDisallowedDynamicProvider" ->
            <<EvRedirect(getSorryUrl(MsgLoginNotAllowed(q.ap.host)))>>
      [] c = "RequireSession" ->
            <<EvMetric("failed_client", q.ap.host),
              EvRedirect(getSorryUrl(MsgNoSession))>>

\* Mutant: the denial by the trust check is counted as a client error.
DenyUntrustedAsClient(q, evs) ==
    Done(q, evs \o <<EvMetric("failed_client", q.ap.host),
                     EvRedirect(getSorryUrl(MsgLoginNotPermitted(OrEmpty(q.host))))>>)

\* the denial of a login by the trust check
DenyUntrusted(q, evs) ==
    Done(q, evs \o <<EvMetric("failed", q.ap.host),
                     EvRedirect(getSorryUrl(MsgLoginNotPermitted(OrEmpty(q.host))))>>)

\* !authProvider.info.verified && !(await this.isInSetupMode()), up to the
\* call of userDb.getUserCount()
TrustOrSetupSteps(q) ==
    IF q.ap.verified
    THEN Goto(q, "attach", <<EvCheck("RequireTrustOrSetup")>>)
    ELSE IF hasAnyStaticProviders
    THEN DenyUntrusted(q, <<EvCheck("RequireTrustOrSetup"),
                            Ev("hasAnyStaticProviders", TRUE)>>)
    ELSE Goto(q, "getUserCount", <<EvCheck("RequireTrustOrSetup"),
                                   Ev("hasAnyStaticProviders", FALSE)>>)

RECURSIVE RunLoginChecks(_, _)
RunLoginChecks(q, i) ==
    IF i > Len(LoginChecks)
    THEN TrustOrSetupSteps(q)
    ELSE IF LoginCheckFails(LoginChecks[i], q)
    THEN Done(q, <<EvCheck(LoginChecks[i])>> \o LoginDenial(LoginChecks[i], q))
    ELSE RunLoginChecks(Goto(q, q.pc, <<EvCheck(LoginChecks[i])>>), i + 1)

\* Mutant: an authenticate that runs its checks on authenticated callers too.
AuthenticateStepsAlwaysChecks(q) ==
    RunLoginChecks(
        [q EXCEPT !.target = ReturnToOrDashboard(q.returnTo),
                  !.ap = getAuthProviderForHost(OrEmpty(q.host))], 1)

\* authenticate up to its first suspension at an external store
AuthenticateSteps(q) ==
    IF q.user # NoUser
    THEN Done(q, <<EvNext>>)
    ELSE RunLoginChecks(
             [q EXCEPT !.target = ReturnToOrDashboard(q.returnTo),
                       !.ap = getAuthProviderForHost(OrEmpty(q.host))], 1)

Authenticate(r, session, user, host, returnTo) ==
    /\ req[r].pc = "idle"
    /\ req' = [req EXCEPT ![r] = AuthenticateSteps(
                   [Idle EXCEPT !.kind = "login", !.session = session,
                                !.user = user, !.host = host,
                                !.returnTo = returnTo])]
    /\ UNCHANGED <<providers, userCount, disableDynamic, authFlow, otherVars>>

\* the continuation of authenticate when userDb.getUserCount() has settled
AuthenticateUserCountSteps(q, ok, count) ==
    IF ~ok
    THEN LookupFailed(q, "getUserCount")
    ELSE IF ~noUser(count)
    THEN DenyUntrusted(q, <<Ev("getUserCount", count)>>)
    ELSE Goto(q, "attach", <<Ev("getUserCount", count)>>)

AuthenticateUserCount(r, ok) ==
    /\ req[r].kind = "login"
    /\ req[r].pc = "getUserCount"
    /\ req' = [req EXCEPT ![r] = AuthenticateUserCountSteps(req[r], ok, userCount)]
    /\ UNCHANGED <<providers, userCount, disableDynamic, authFlow, otherVars>>

\* Mutant: every value of the override parameter but none enables override.
IsOverrideTruthy(override) == ~Falsy(override)

\* req.query.override === "true"
IsOverride(override) == override = "true"

\* an attach that merges: the fields the new state lacks stay in the session
AuthFlowAttachMerged(state) ==
    IF authFlow = << >>
    THEN <<state>>
    ELSE <<[k \in DOMAIN authFlow[1] \cup DOMAIN state |->
               IF k \in DOMAIN state THEN state[k] ELSE authFlow[1][k]]>>

\* AuthFlow.attach(session, state): the state replaces the session's
AuthFlowAttach(state) == <<state>>

\* Mutant: the login attaches the returnTo parameter as it came.
FlowStateRawReturnTo(q) ==
    IF q.kind = "login"
    THEN [host |-> OrEmpty(q.host), returnTo |-> q.returnTo]
    ELSE [host |-> q.host, returnTo |-> q.returnTo,
          overrideScopes |-> IsOverride(q.override)]

\* the state a request attaches: {host, returnTo} in login,
\* {host, returnTo, overrideScopes} in authorize
FlowState(q) ==
    IF q.kind = "login"
    THEN [host |-> OrEmpty(q.host), returnTo |-> q.target]
    ELSE [host |-> q.host, returnTo |-> q.returnTo,
          overrideScopes |-> IsOverride(q.override)]

\* await AuthFlow.attach(req.session, ...): persisted, or the save fails
Attach(r, ok) ==
    /\ req[r].pc = "attach"
    /\ IF ok
       THEN /\ authFlow' = AuthFlowAttach(FlowState(req[r]))
            /\ req' = [req EXCEPT ![r] =
                          Goto(req[r], "attached", <<EvAttach(FlowState(req[r]))>>)]
       ELSE /\ authFlow' = authFlow
            /\ req' = [req EXCEPT ![r] = Done(req[r], <<EvThrow>>)]
    /\ UNCHANGED <<providers, userCount, disableDynamic, otherVars>>

\* authenticate after the attach: authProvider.authorize(req, res, next)
AuthenticateDelegate(r) ==
    /\ req[r].kind = "login"
    /\ req[r].pc = "attached"
    /\ req' = [req EXCEPT ![r] = Done(req[r], <<EvDelegate(req[r].ap.host)>>)]
    /\ UNCHANGED <<providers, userCount, disableDynamic, authFlow, otherVars>>

(***************************************************************************)
(* authorize (connect / grant-scopes flow).                                *)
(***************************************************************************)
\* Mutant: the parameters are checked before the caller's authentication.
AuthorizePreconditionsParamsFirst ==
    <<"RequireSession", "ValidateParams", "RequireAuthenticated">>

\* The preconditions, in the order of their if statements.
AuthorizePreconditions == <<"RequireSession", "RequireAuthenticated", "ValidateParams">>

\* !returnTo || !host || !authProvider
MissingAuthorizeParams(q) == Falsy(q.returnTo) \/ Falsy(q.host) \/ q.ap = NoProvider

PreconditionFails(c, q) ==
    CASE c = "RequireSession" -> ~q.session
      [] c = "RequireAuthenticated" -> q.user = NoUser
      [] c = "ValidateParams" -> MissingAuthorizeParams(q)

PreconditionDenial(c) ==
    CASE c = "RequireSession" -> <<EvRedirect(getSorryUrl(MsgNoSession))>>
      [] c = "RequireAuthenticated" -> <<EvRedirect(getSorryUrl(MsgNotAuthenticated))>>
      [] c = "ValidateParams" -> <<EvRedirect(getSorryUrl(MsgBadRequest))>>

\* Mutant: ownership is asked of the callers of every organizational provider.
NeedsOrgOwnerCheckAnyOrg(ap) == ap.organizationId # ""

\* !authProvider.info.verified && authProvider.info.organizationId
NeedsOrgOwnerCheck(ap) == ~ap.verified /\ ap.organizationId # ""
\* Mutant: any membership counts as ownership.
IsOrgOwnerOrMember(role) == role # ""
\* member?.role === "owner"; role is "" when there is no membership
IsOrgOwner(role) == role = "owner"
\* Mutant: a provider without owner is everybody's.
IsProviderOwnerOrUnowned(user, ap) == ap.ownerId = "" \/ user = ap.ownerId
\* user.id === authProvider.info.ownerId
IsProviderOwner(user, ap) == user = ap.ownerId
\* !verified && !organizationId && user.id !== ownerId
NotProviderOwner(q) ==
    ~q.ap.verified /\ q.ap.organizationId = "" /\ ~IsProviderOwner(q.user, q.ap)
\* Mutant: membership is looked up for unverified providers only.
NeedsOrgMemberCheckUnverified(ap) == ap.organizationId # "" /\ ~ap.verified
\* authProvider.info.organizationId, the guard of the membership check
NeedsOrgMemberCheck(ap) == ap.organizationId # ""
\* !!member
IsOrgMember(role) == role # ""

DenyAuthorization(q, evs) ==
    Done(q, evs \o <<EvRedirect(getSorryUrl(MsgAuthorizationNotPermitted(q.host)))>>)

\* authorize from the check of the provider's owner on
AuthorizeOwnerSteps(q, evs) ==
    IF NotProviderOwner(q)
    THEN DenyAuthorization(q, evs \o <<EvCheck("RequireProviderOwner")>>)
    ELSE IF NeedsOrgMemberCheck(q.ap)
    THEN Goto(q, "findTeamMembership2", evs \o <<EvCheck("RequireProviderOwner")>>)
    ELSE Goto(q, "attach", evs \o <<EvCheck("RequireProviderOwner")>>)

\* Mutant: the state is attached right after the preconditions.
AuthorizePolicyStepsSkipped(q) == Goto(q, "attach", << >>)

\* authorize after its preconditions, up to its first suspension
AuthorizePolicySteps(q) ==
    IF NeedsOrgOwnerCheck(q.ap)
    THEN Goto(q, "findTeamMembership1", << >>)
    ELSE AuthorizeOwnerSteps(q, << >>)

RECURSIVE RunPreconditions(_, _)
RunPreconditions(q, i) ==
    IF i > Len(AuthorizePreconditions)
    THEN AuthorizePolicySteps(q)
    ELSE IF PreconditionFails(AuthorizePreconditions[i], q)
    THEN Done(q, <<EvCheck(AuthorizePreconditions[i])>>
                 \o PreconditionDenial(AuthorizePreconditions[i]))
    ELSE RunPreconditions(Goto(q, q.pc, <<EvCheck(AuthorizePreconditions[i])>>), i + 1)

\* authorize up to its first suspension at an external store
AuthorizeSteps(q) ==
    RunPreconditions([q EXCEPT !.ap = getAuthProviderForHost(q.host)], 1)

Authorize(r, session, user, host, returnTo, scopes, override) ==
    /\ req[r].pc = "idle"
    /\ req' = [req EXCEPT ![r] = AuthorizeSteps(
                   [Idle EXCEPT !.kind = "authorize", !.session = session,
                                !.user = user, !.host = host,
                                !.returnTo = returnTo, !.scopes = scopes,
                                !.override = override])]
    /\ UNCHANGED <<providers, userCount, disableDynamic, authFlow, otherVars>>

\* the first findTeamMembership has settled
AuthorizeOrgOwnerSteps(q, ok, role) ==
    IF ~ok
    THEN LookupFailed(q, "findTeamMembership")
    ELSE IF ~IsOrgOwner(role)
    THEN DenyAuthorization(q, <<EvCheck("RequireOrgOwner"),
                                EvMembership("RequireOrgOwner", role)>>)
    ELSE AuthorizeOwnerSteps(q, <<EvCheck("RequireOrgOwner"),
                                  EvMembership("RequireOrgOwner", role)>>)

AuthorizeOrgOwner(r, ok, role) ==
    /\ req[r].kind = "authorize"
    /\ req[r].pc = "findTeamMembership1"
    /\ req' = [req EXCEPT ![r] = AuthorizeOrgOwnerSteps(req[r], ok, role)]
    /\ UNCHANGED <<providers, userCount, disableDynamic, authFlow, otherVars>>

\* the second findTeamMembership has settled
AuthorizeOrgMemberSteps(q, ok, role) ==
    IF ~ok
    THEN LookupFailed(q, "findTeamMembership")
    ELSE IF ~IsOrgMember(role)
    THEN DenyAuthorization(q, <<EvCheck("RequireOrgMember"),
                                EvMembership("RequireOrgMember", role)>>)
    ELSE Goto(q, "attach", <<EvCheck("RequireOrgMember"),
                             EvMembership("RequireOrgMember", role)>>)

AuthorizeOrgMember(r, ok, role) ==
    /\ req[r].kind = "authorize"
    /\ req[r].pc = "findTeamMembership2"
    /\ req' = [req EXCEPT ![r] = AuthorizeOrgMemberSteps(req[r], ok, role)]
    /\ UNCHANGED <<providers, userCount, disableDynamic, authFlow, otherVars>>

\* authProvider.info.requirements: absent, or present with its default scopes
Requirements(host) ==
    [present |-> HasRequirements(host), default |-> DefaultScopes(host)]

\* Mutant: an empty request stays empty.
WantedOfNoDefaults(parsed, requirements) == parsed

\* if (wantedScopes.length === 0 && requirements) wantedScopes = default
WantedOf(parsed, requirements) ==
    IF Len(parsed) = 0 /\ requirements.present
    THEN requirements.default
    ELSE parsed

\* the !override branch: merge the current scopes in, and the defaults too
\* when there is no current scope
MergedOf(wanted, current, requirements) ==
    IF Len(current) = 0 /\ requirements.present
    THEN mergeScopes(requirements.default, mergeScopes(current, wanted))
    ELSE mergeScopes(current, wanted)

\* the scope computation of authorize on the parsed parameter, the current
\* scopes, the provider's requirements and the override flag
negotiate(parsed, current, requirements, override) ==
    IF override
    THEN WantedOf(parsed, requirements)
    ELSE MergedOf(WantedOf(parsed, requirements), current, requirements)

\* the requested scopes: parsed, or the provider's defaults when none is given
WantedScopes(raw, host) == WantedOf(ParseScopes(raw), Requirements(host))

\* Mutant: the override parameter is not honoured, every request merges.
AuthorizeScopesStepsAlwaysMerge(q) ==
    Goto([q EXCEPT !.wanted = WantedScopes(q.scopes, q.ap.host)],
         "getCurrentScopes", << >>)

\* authorize after the attach, up to the lookup of the current scopes
AuthorizeScopesSteps(q) ==
    LET wanted == WantedScopes(q.scopes, q.ap.host)
    IN  IF IsOverride(q.override)
        THEN Done([q EXCEPT !.wanted = wanted],
                  <<EvDelegateScopes(q.ap.host, wanted)>>)
        ELSE Goto([q EXCEPT !.wanted = wanted], "getCurrentScopes", << >>)

AuthorizeScopes(r) ==
    /\ req[r].kind = "authorize"
    /\ req[r].pc = "attached"
    /\ req' = [req EXCEPT ![r] = AuthorizeScopesSteps(req[r])]
    /\ UNCHANGED <<providers, userCount, disableDynamic, authFlow, otherVars>>

\* Mutant: the defaults are merged in whatever the current scopes are.
MergedScopesAlwaysDefaults(wanted, current, host) ==
    mergeScopes(DefaultScopes(host), mergeScopes(current, wanted))

\* the merge of the current scopes into the wanted ones
MergedScopes(wanted, current, host) ==
    MergedOf(wanted, current, Requirements(host))

\* getCurrentScopes has settled: the token's scopes, [] when there is no token
AuthorizeMergeSteps(q, current) ==
    Done([q EXCEPT !.wanted = MergedScopes(q.wanted, current, q.ap.host)],
         <<Ev("currentScopes", current),
           EvDelegateScopes(q.ap.host, MergedScopes(q.wanted, current, q.ap.host))>>)

AuthorizeMerge(r, current) ==
    /\ req[r].kind = "authorize"
    /\ req[r].pc = "getCurrentScopes"
    /\ req' = [req EXCEPT ![r] = AuthorizeMergeSteps(req[r], current)]
    /\ UNCHANGED <<providers, userCount, disableDynamic, authFlow, otherVars>>

(***************************************************************************)
(* deauthorize (disconnect a provider).                                    *)
(***************************************************************************)
\* a redirect target that is not the denial page
Url(u) == [page |-> u, message |-> << >>]
\* authProvider.authProviderId; the registry holds one provider per host
AuthProviderId(ap) == ap.host
\* what userService.deauthorize may throw: with a message, or without
Errors == {[message |-> <<"token", "store", "unavailable">>], [message |-> << >>]}

\* Mutant: the host parameter is validated before the caller's authentication.
DeauthorizeChecksParamsFirst == <<"ValidateParams", "RequireAuthenticated">>

\* The checks of deauthorize, in the order of their if statements.
DeauthorizeChecks == <<"RequireAuthenticated", "ValidateParams">>

DeauthorizeCheckFails(c, q) ==
    CASE c = "RequireAuthenticated" -> q.user = NoUser
      [] c = "ValidateParams" ->
             Falsy(q.host) \/ getAuthProviderForHost(q.host) = NoProvider

DeauthorizeDenial(c) ==
    CASE c = "RequireAuthenticated" -> <<EvRedirect(getSorryUrl(MsgNotAuthenticated))>>
      [] c = "ValidateParams" -> <<EvRedirect(getSorryUrl(MsgBadRequest))>>

\* the call of userService.deauthorize(user, authProvider.authProviderId)
EvDeauthorize(user, ap) ==
    Ev("deauthorize", [user |-> user, authProviderId |-> AuthProviderId(ap)])

RECURSIVE RunDeauthorizeChecks(_, _)
RunDeauthorizeChecks(q, i) ==
    IF i > Len(DeauthorizeChecks)
    THEN Goto([q EXCEPT !.ap = getAuthProviderForHost(q.host)], "deauthorize",
              <<EvDeauthorize(q.user, getAuthProviderForHost(q.host))>>)
    ELSE IF DeauthorizeCheckFails(DeauthorizeChecks[i], q)
    THEN Done(q, <<EvCheck(DeauthorizeChecks[i])>>
                 \o DeauthorizeDenial(DeauthorizeChecks[i]))
    ELSE RunDeauthorizeChecks(Goto(q, q.pc, <<EvCheck(DeauthorizeChecks[i])>>), i + 1)

\* deauthorize up to the call of userService.deauthorize
DeauthorizeSteps(q) ==
    RunDeauthorizeChecks(
        [q EXCEPT !.target = ReturnToOrDashboard(q.returnTo)],
        1)

Deauthorize(r, user, host, returnTo) ==
    /\ req[r].pc = "idle"
    /\ req' = [req EXCEPT ![r] = DeauthorizeSteps(
                   [Idle EXCEPT !.kind = "deauthorize", !.user = user,
                                !.host = host, !.returnTo = returnTo])]
    /\ UNCHANGED <<providers, userCount, disableDynamic, authFlow, otherVars>>

\* Mutant: the failure is shown to the user and not forwarded.
DeauthorizeFailedRedirectOnly(q, error) ==
    Done(q, <<Ev("catch", error),
              EvRedirect(getSorryUrl(MsgFailedToDisconnect(error)))>>)

\* the catch clause: next(error), then the redirect to the denial page
DeauthorizeFailed(q, error) ==
    Done(q, <<Ev("catch", error), Ev("next", error),
              EvRedirect(getSorryUrl(MsgFailedToDisconnect(error)))>>)

\* userService.deauthorize has settled
DeauthorizeResultSteps(q, ok, error) ==
    IF ok
    THEN Done(q, <<EvRedirect(Url(q.target))>>)
    ELSE DeauthorizeFailed(q, error)

DeauthorizeResult(r, ok, error) ==
    /\ req[r].kind = "deauthorize"
    /\ req[r].pc = "deauthorize"
    /\ req' = [req EXCEPT ![r] = DeauthorizeResultSteps(req[r], ok, error)]
    /\ UNCHANGED <<providers, userCount, disableDynamic, authFlow, otherVars>>

(***************************************************************************)
(* Token verification: the key resolution of the JWT strategy.             *)
(***************************************************************************)
secretOrKeyProvider(keyID) ==
    /\ keyRes = NoKeyRes
    /\ keyRes' = [kid |-> keyID, outcome |-> secretOrKey(pki, keyID)]
    /\ UNCHANGED <<gateVars, pki, neg>>

\* the verification of the token is over
KeyResolved ==
    /\ keyRes # NoKeyRes
    /\ keyRes' = NoKeyRes
    /\ UNCHANGED <<gateVars, pki, neg>>

(***************************************************************************)
(* The scope computation of authorize, applied as a function.              *)
(***************************************************************************)
Negotiate ==
    /\ neg.pc = "start"
    /\ neg' = [neg EXCEPT !.pc = "negotiated",
                          !.result = negotiate(neg.parsed, neg.current,
                                               neg.requirements, neg.override)]
    /\ UNCHANGED <<gateVars, keyVars>>

\* once more, for a caller whose current scopes are the ones just computed
Renegotiate ==
    /\ neg.pc = "negotiated"
    /\ neg' = [neg EXCEPT !.pc = "renegotiated",
                          !.again = negotiate(neg.parsed, neg.result,
                                              neg.requirements, neg.override)]
    /\ UNCHANGED <<gateVars, keyVars>>

(***************************************************************************)
(* Specifications.                                                         *)
(***************************************************************************)
\* Spec: the login flow on a registry and a user store that grow.
Next ==
    \/ \E p \in ProviderInfos : AddProvider(p)
    \/ AddUser
    \/ Finish("r1")
    \/ \E s \in BOOLEAN, u \in {NoUser, "u1"},
          h \in Hosts \cup {Absent, UnknownHost}, rt \in {Absent, "", "/r"} :
          Authenticate("r1", s, u, h, rt)
    \/ \E ok \in BOOLEAN : AuthenticateUserCount("r1", ok)
    \/ \E ok \in BOOLEAN : Attach("r1", ok)
    \/ AuthenticateDelegate("r1")

Spec == Init /\ [][Next]_vars

\* SpecAuthorize: the authorize flow; the providers are the dynamic ones
\* (authorize does not read builtin).
Roles == {"", "member", "owner"}
CurrentScopeLists == {<< >>, <<"user">>, <<"user", "email">>}

NextAuthorize ==
    \/ \E p \in {x \in ProviderInfos : ~x.builtin} : AddProvider(p)
    \/ Finish("r1")
    \/ \E s \in BOOLEAN, u \in {NoUser} \cup Users,
          h \in Hosts \cup {Absent, UnknownHost}, rt \in {Absent, "/r"},
          sc \in {<< >>, <<"repo">>}, o \in {Absent, "true"} :
          Authorize("r1", s, u, h, rt, sc, o)
    \/ \E ok \in BOOLEAN, role \in Roles : AuthorizeOrgOwner("r1", ok, role)
    \/ \E ok \in BOOLEAN, role \in Roles : AuthorizeOrgMember("r1", ok, role)
    \/ \E ok \in BOOLEAN : Attach("r1", ok)
    \/ AuthorizeScopes("r1")
    \/ \E current \in CurrentScopeLists : AuthorizeMerge("r1", current)

SpecAuthorize == Init /\ [][NextAuthorize]_vars
\* SpecScopes: the scope computation of authorize, for a caller who passes
\* the policy (verified providers without organization), on all raw scopes
\* parameters and all current scope lists within the bounds.
RawTokens == {",", " "} \cup ScopeNames
RawScopes == {raw \in SeqsUpTo(RawTokens, MaxRawLen) : WellFormedRaw(raw)}
TokenScopeLists == SeqsUpTo(ScopeNames, MaxCurrentLen)

NextScopes ==
    \/ \E p \in {x \in ProviderInfos : x.verified /\ x.organizationId = ""
                                       /\ x.ownerId = "" /\ ~x.builtin} :
          AddProvider(p)
    \/ Finish("r1")
    \/ \E h \in Hosts, sc \in RawScopes, o \in {Absent, "false", "true", "TRUE"} :
          Authorize("r1", TRUE, "u1", h, "/r", sc, o)
    \/ \E ok \in BOOLEAN : Attach("r1", ok)
    \/ AuthorizeScopes("r1")
    \/ \E current \in TokenScopeLists : AuthorizeMerge("r1", current)

SpecScopes == Init /\ [][NextScopes]_vars

\* SpecGates: the three gates side by side, each on the requests that reach
\* its store calls, with every store call succeeding or failing.
NextGates ==
    \/ \E p \in {x \in ProviderInfos : ~x.builtin /\ x.ownerId = ""} : AddProvider(p)
    \/ AddUser
    \/ Finish("r1")
    \/ \E u \in {NoUser, "u1"}, h \in Hosts \cup {Absent}, rt \in {Absent, "/r"} :
          Authenticate("r1", TRUE, u, h, rt)
    \/ \E ok \in BOOLEAN : AuthenticateUserCount("r1", ok)
    \/ \E ok \in BOOLEAN : Attach("r1", ok)
    \/ AuthenticateDelegate("r1")
    \/ \E u \in {NoUser, "u1"}, h \in Hosts \cup {Absent}, rt \in {Absent, "/r"} :
          Authorize("r1", TRUE, u, h, rt, <<"repo">>, Absent)
    \/ \E ok \in BOOLEAN, role \in Roles : AuthorizeOrgOwner("r1", ok, role)
    \/ \E ok \in BOOLEAN, role \in Roles : AuthorizeOrgMember("r1", ok, role)
    \/ AuthorizeScopes("r1")
    \/ \E current \in CurrentScopeLists : AuthorizeMerge("r1", current)
    \/ \E u \in {NoUser, "u1"}, h \in Hosts \cup {Absent}, rt \in {Absent, "/r"} :
          Deauthorize("r1", u, h, rt)
    \/ \E ok \in BOOLEAN, error \in Errors : DeauthorizeResult("r1", ok, error)

SpecGates == Init /\ [][NextGates]_vars

\* SpecDeauthorize: the deauthorize flow on the dynamic providers.
NextDeauthorize ==
    \/ \E p \in {x \in ProviderInfos : ~x.builtin /\ x.ownerId = ""} : AddProvider(p)
    \/ Finish("r1")
    \/ \E u \in {NoUser, "u1"}, h \in Hosts \cup {Absent, UnknownHost},
          rt \in {Absent, "/r"} :
          Deauthorize("r1", u, h, rt)
    \/ \E ok \in BOOLEAN, error \in Errors : DeauthorizeResult("r1", ok, error)

SpecDeauthorize == Init /\ [][NextDeauthorize]_vars

\* SpecKeys: the key resolution, on every key ring within the bounds.
InitKeys ==
    /\ providers = << >>
    /\ userCount = 0
    /\ disableDynamic = FALSE
    /\ authFlow = << >>
    /\ req = [r \in ReqIds |-> Idle]
    /\ pki \in PkiConfigs
    /\ keyRes = NoKeyRes
    /\ neg = NoNegotiation
    /\ callbackPaths = DefaultCallbackPaths
    /\ PageNotLoaded

NextKeys ==
    \/ \E keyID \in Kids : secretOrKeyProvider(keyID)
    \/ KeyResolved

SpecKeys == InitKeys /\ [][NextKeys]_vars

\* SpecNegotiate: the scope computation on every parsed list, current list and
\* requirements within the bounds.
RequirementsConfigs ==
    {[present |-> FALSE, default |-> << >>]}
    \cup {[present |-> TRUE, default |-> d] : d \in TokenScopeLists}

InitNegotiate ==
    /\ providers = << >>
    /\ userCount = 0
    /\ disableDynamic = FALSE
    /\ authFlow = << >>
    /\ req = [r \in ReqIds |-> Idle]
    /\ pki = SigningOnly
    /\ callbackPaths = DefaultCallbackPaths
    /\ PageNotLoaded
    /\ keyRes = NoKeyRes
    /\ neg \in {[NoNegotiation EXCEPT !.pc = "start", !.parsed = b, !.current = a,
                                      !.requirements = d, !.override = o] :
                    b \in TokenScopeLists, a \in TokenScopeLists,
                    d \in RequirementsConfigs, o \in BOOLEAN}

NextNegotiate ==
    \/ Negotiate
    \/ Renegotiate

SpecNegotiate == InitNegotiate /\ [][NextNegotiate]_vars

(***************************************************************************)
(* The callback router: authCallbackHandler.                               *)
(***************************************************************************)
\* the providers, by position in the registry, whose callback path the URL
\* starts with
MatchingProviders(registry, paths, url) ==
    {i \in 1..Len(registry) : StartsWith(url, paths[registry[i].host])}

\* a router that keeps looping and so ends on the last matching provider
LastMatching(registry, paths, url) ==
    CHOOSE i \in MatchingProviders(registry, paths, url) :
        \A j \in MatchingProviders(registry, paths, url) : j <= i
\* the loop over hostContextProvider.getAll() returns at the first match
FirstMatching(registry, paths, url) ==
    CHOOSE i \in MatchingProviders(registry, paths, url) :
        \A j \in MatchingProviders(registry, paths, url) : i <= j

EvCallback(host) == Ev("callback", host)

\* a router without the "/auth/" guard
authCallbackHandlerStepsUnguarded(q, registry, paths) ==
    IF MatchingProviders(registry, paths, q.url) # {}
    THEN LET ap == registry[FirstMatching(registry, paths, q.url)]
         IN Goto([q EXCEPT !.ap = ap], "callback", <<EvCallback(ap.host)>>)
    ELSE Done(q, <<EvNext>>)
authCallbackHandlerSteps(q, registry, paths) ==
    IF /\ StartsWith(q.url, AuthPath)
       /\ MatchingProviders(registry, paths, q.url) # {}
    THEN LET ap == registry[FirstMatching(registry, paths, q.url)]
         IN Goto([q EXCEPT !.ap = ap], "callback", <<EvCallback(ap.host)>>)
    ELSE Done(q, <<EvNext>>)

authCallbackHandler(r, url) ==
    /\ req[r].pc = "idle"
    /\ req' = [req EXCEPT ![r] =
                  authCallbackHandlerSteps(
                      [Idle EXCEPT !.kind = "callback", !.url = url],
                      providers, callbackPaths)]
    /\ UNCHANGED <<providers, userCount, disableDynamic, authFlow, otherVars>>

\* authProvider.callback(req, res, next): the provider reads the session's
\* flow state; it completes the flow, and deletes the state, only when the
\* state was written for its own host, and terminates otherwise
EvAuthFlow(flow) == Ev("authFlow", flow)
FlowIsForAnyHost(flow, host) == flow # << >>
FlowIsFor(flow, host) == flow # << >> /\ flow[1].host = host
CallbackSteps(q, flow) ==
    IF FlowIsFor(flow, q.ap.host)
    THEN Done(q, <<EvAuthFlow(flow), Ev("complete", q.ap.host)>>)
    ELSE Done(q, <<EvAuthFlow(flow), Ev("terminate", q.ap.host)>>)

ProviderCallback(r) ==
    /\ req[r].pc = "callback"
    /\ req' = [req EXCEPT ![r] = CallbackSteps(req[r], authFlow)]
    /\ authFlow' = IF FlowIsFor(authFlow, req[r].ap.host) THEN << >> ELSE authFlow
    /\ UNCHANGED <<providers, userCount, disableDynamic, otherVars>>

InitCallback ==
    /\ providers = << >>
    /\ userCount = 1
    /\ disableDynamic = FALSE
    /\ authFlow = << >>
    /\ req = [r \in ReqIds |-> Idle]
    /\ pki = SigningOnly
    /\ keyRes = NoKeyRes
    /\ neg = NoNegotiation
    /\ callbackPaths \in [Hosts -> CallbackPaths]
    /\ PageNotLoaded

\* two requests of one session at a time: authorize initiations that pass
\* every check, and callbacks
NextCallback ==
    \/ \E p \in {x \in ProviderInfos :
                    x.verified /\ ~x.builtin /\ x.ownerId = "" /\ x.organizationId = ""} :
          AddProvider(p)
    \/ \E r \in ReqIds : Finish(r)
    \/ \E r \in ReqIds, h \in Hosts :
          Authorize(r, TRUE, "u1", h, "/r", << >>, "true")
    \/ \E r \in ReqIds : Attach(r, TRUE)
    \/ \E r \in ReqIds : AuthorizeScopes(r)
    \/ \E r \in ReqIds, url \in Urls : authCallbackHandler(r, url)
    \/ \E r \in ReqIds : ProviderCallback(r)

SpecCallback == InitCallback /\ [][NextCallback]_vars

\* SpecFlows: login and authorize initiations of one session, two at a time,
\* that pass every check and write their flow state in any order
NextFlows ==
    \/ \E p \in {x \in ProviderInfos :
                    x.verified /\ ~x.builtin /\ x.ownerId = ""
                    /\ x.organizationId = ""} :
          AddProvider(p)
    \/ \E r \in ReqIds : Finish(r)
    \/ \E r \in ReqIds, h \in Hosts, rt \in {Absent, "/r"} :
          Authenticate(r, TRUE, NoUser, h, rt)
    \/ \E r \in ReqIds, h \in Hosts, o \in {Absent, "true"} :
          Authorize(r, TRUE, "u1", h, "/settings", << >>, o)
    \/ \E r \in ReqIds, ok \in BOOLEAN : Attach(r, ok)
    \/ \E r \in ReqIds : AuthenticateDelegate(r)
    \/ \E r \in ReqIds : AuthorizeScopes(r)
    \/ \E r \in ReqIds : AuthorizeMerge(r, << >>)

SpecFlows == Init /\ [][NextFlows]_vars

(***************************************************************************)
(* The switch-to-pay-as-you-go page: renders, effect runs, server calls.   *)
(***************************************************************************)
\* the PageState the component works on: under the key of a page without
\* parameters nothing is ever written
PageStateOf(p, s) == IF p.params = NoParams THEN DefaultPageState ELSE s

\* the calls of setState, in the order a step makes them
SetError(msg) == [op |-> "errorMessage", v |-> msg]
SetPending(b) == [op |-> "pendingStripeSubscription", v |-> b]
SetModal(b) == [op |-> "showBillingSetupModal", v |-> b]
SetPhase(phase) == [op |-> "phase", v |-> phase]
SetDerived(attributionId, oldSubscriptionId) ==
    [op |-> "derived",
     v |-> [attributionId |-> attributionId,
            oldSubscriptionId |-> oldSubscriptionId]]
IsPageStateSet(set) == set.op \in {"phase", "derived"}

\* the run of the effect that is still wanted
LiveRun(p) == p.run.pc # "done"
\* a render: the effect is scheduled again and the run before is cancelled
Rendered(p) ==
    IF LiveRun(p)
    THEN [p EXCEPT !.effect = "pending", !.run = NoRun,
                   !.zombies = Append(p.zombies, [p.run EXCEPT !.cancelled = TRUE])]
    ELSE [p EXCEPT !.effect = "pending"]

\* one setState of a component instance: a stale instance is not there any
\* more, and a value that is the same causes no render
ApplySet(p, set, stale) ==
    IF IsPageStateSet(set) THEN Rendered(p)
    ELSE IF stale \/ p[set.op] = set.v THEN p
    ELSE Rendered([p EXCEPT ![set.op] = set.v])

RECURSIVE ApplySets(_, _, _)
ApplySets(p, sets, stale) ==
    IF sets = << >> THEN p
    ELSE ApplySets(ApplySet(p, Head(sets), stale), Tail(sets), stale)

\* setPageState((s) => ({...s, phase})) and
\* setPageState((s) => ({...s, attributionId: s.attributionId || derived,
\* oldSubscriptionId}))
setPageState(s, set) ==
    IF set.op = "phase" THEN [s EXCEPT !.phase = set.v]
    ELSE IF set.op = "derived"
    THEN [s EXCEPT !.attributionId =
                       IF Falsy(s.attributionId) THEN set.v.attributionId
                       ELSE s.attributionId,
                   !.oldSubscriptionId = set.v.oldSubscriptionId]
    ELSE s

RECURSIVE StoredAfter(_, _)
StoredAfter(s, sets) ==
    IF sets = << >> THEN s
    ELSE StoredAfter(setPageState(s, Head(sets)), Tail(sets))

\* the result of a step of a run: the run after it and its setState calls
Step(run, sets) == [run |-> run, sets |-> sets]
Returned(run, evs, sets) ==
    Step([run EXCEPT !.pc = "done", !.effects = run.effects \o evs], sets)
Awaiting(run, pc, evs, sets) ==
    Step([run EXCEPT !.pc = pc, !.effects = run.effects \o evs], sets)
\* Mutant: a run does not look at its cancelled flag.
UnlessCancelledNever(run, sets) == sets
\* if (!cancelled) setPageState(...)
UnlessCancelled(run, sets) == IF run.cancelled THEN << >> ELSE sets

\* call-to-action, when the server has answered for the old subscription;
\* a call that fails ends the run in .catch(console.error)
FetchedSteps(run, params, ok, status) ==
    IF ~ok
    THEN Returned(run, <<Ev("fetch", "failed")>>, << >>)
    ELSE IF status = "ended"
    THEN Returned(run, <<Ev("fetch", status)>>,
                  UnlessCancelled(run, <<SetPhase("done")>>))
    ELSE Returned(run, <<Ev("fetch", status)>>,
                  UnlessCancelled(run,
                      <<SetDerived(derivedAttributionId(params, status),
                                   derivedOldSubscriptionId(params, status))>>))

EvFind(i, ok, found) ==
    Ev("findStripeSubscriptionId", [i |-> i, ok |-> ok, found |-> ok /\ found])
\* subscribeToStripe(attributionId, setupIntentId, limit)
EvSubscribeToStripe(run) ==
    Ev("subscribeToStripe",
       [attributionId |-> run.attributionId, setupIntentId |-> run.setupIntentId])

\* trigger-signup, when findStripeSubscriptionId has settled
FoundSteps(run, ok, found) ==
    IF ~ok
    THEN Returned(run, <<EvFind(0, ok, found)>>, << >>)
    ELSE IF found
    THEN Returned(run, <<EvFind(0, ok, found)>>,
                  UnlessCancelled(run, <<SetPhase("cleanup")>>))
    ELSE Awaiting(run, "subscribeToStripe",
                  <<EvFind(0, ok, found), EvSubscribeToStripe(run)>>,
                  <<SetPending(TRUE)>>)

\* what the server had for the attribution id when the signup reached it
EvSubscribed(ok, had) == Ev("subscribed", [ok |-> ok, had |-> had])
\* trigger-signup, when subscribeToStripe has settled
SubscribedSteps(run, ok, had) ==
    IF ok
    THEN Returned(run, <<EvSubscribed(ok, had)>>,
                  UnlessCancelled(run, <<SetPhase("wait-for-signup")>>))
    ELSE Returned(run, <<EvSubscribed(ok, had)>>,
                  UnlessCancelled(run, <<SetError(MsgCouldNotSubscribe),
                                         SetPending(FALSE)>>))

\* wait-for-signup: after the loop
AfterPolling(run, evs, found) ==
    IF run.cancelled
    THEN Returned(run, evs, << >>)
    ELSE IF ~found
    THEN Returned(run, evs, <<SetPending(FALSE), SetError(MsgCouldNotFind)>>)
    ELSE Returned(run, evs, <<SetPending(FALSE), SetPhase("cleanup")>>)

\* the outcome of a poll: the call failed, or it returned a subscription
\* id, or none
PollOutcome(ok, found) ==
    IF ~ok THEN "failed" ELSE IF found THEN "found" ELSE "nothing"

\* wait-for-signup, when the poll numbered run.i has settled: a subscription
\* id ends the loop, everything else leads to the pause
PolledSteps(run, ok, found) ==
    IF ok /\ found
    THEN AfterPolling([run EXCEPT !.polled = PollOutcome(ok, found)], << >>, TRUE)
    ELSE Awaiting([run EXCEPT !.polled = PollOutcome(ok, found)],
                  "setTimeout", << >>, << >>)

\* Mutant: the polling goes on after the tenth attempt.
PausedStepsUnbounded(run) ==
    IF run.cancelled
    THEN AfterPolling(run, << >>, FALSE)
    ELSE Awaiting([run EXCEPT !.i = IF run.i <= MaxPolls THEN run.i + 1 ELSE run.i],
                  "poll", << >>, << >>)
\* wait-for-signup, when the pause is over: i++, i <= 10, if (cancelled) break
PausedSteps(run) ==
    IF run.i + 1 > MaxPolls \/ run.cancelled
    THEN AfterPolling(run, << >>, FALSE)
    ELSE Awaiting([run EXCEPT !.i = run.i + 1], "poll", << >>, << >>)

\* subscriptionCancel, tsCancel, cancelTeamSubscription
CancelCall(type) ==
    IF type = KEY_PERSONAL_SUB THEN "subscriptionCancel"
    ELSE IF type = KEY_TEAM1_SUB THEN "tsCancel"
    ELSE "cancelTeamSubscription"
EvCancel(type, id) == Ev("cancel", [call |-> CancelCall(type), id |-> id])

\* Mutant: the signup is triggered without a setup intent.
TriggerSignupStepsNoIntent(new, params, s) ==
    IF Falsy(s.attributionId)
    THEN Returned(new, << >>, << >>)
    ELSE Awaiting([new EXCEPT !.attributionId = s.attributionId,
                              !.setupIntentId = params.setupIntentId],
                  "findStripeSubscriptionId", << >>, << >>)
\* the effect in phase trigger-signup
TriggerSignupSteps(new, params, s) ==
    IF Falsy(s.attributionId) \/ Falsy(params.setupIntentId)
    THEN Returned(new, << >>, << >>)
    ELSE Awaiting([new EXCEPT !.attributionId = s.attributionId,
                              !.setupIntentId = params.setupIntentId],
                  "findStripeSubscriptionId", << >>, << >>)

\* Mutant: the old subscription is cancelled when the signup was sent.
EffectPhaseStepsEarlyCancel(new, params, s) ==
    CASE s.phase = "call-to-action" -> Awaiting(new, "fetch", << >>, << >>)
      [] s.phase = "trigger-signup" -> TriggerSignupSteps(new, params, s)
      [] s.phase \in {"wait-for-signup", "cleanup"} ->
            IF Falsy(s.oldSubscriptionId)
            THEN Returned(new, << >>, <<SetError(MsgOldSubscriptionNotSet)>>)
            ELSE Returned(new, <<EvCancel(params.type, s.oldSubscriptionId)>>,
                          <<SetPhase("done")>>)
      [] s.phase = "done" -> Returned(new, << >>, << >>)
\* the switch on the phase, up to the first await
EffectPhaseSteps(new, params, s) ==
    CASE s.phase = "call-to-action" -> Awaiting(new, "fetch", << >>, << >>)
      [] s.phase = "trigger-signup" -> TriggerSignupSteps(new, params, s)
      [] s.phase = "wait-for-signup" ->
            IF Falsy(s.attributionId)
            THEN Returned(new, << >>, << >>)
            ELSE Awaiting([new EXCEPT !.attributionId = s.attributionId, !.i = 1],
                          "poll", << >>, <<SetPending(TRUE)>>)
      [] s.phase = "cleanup" ->
            IF Falsy(s.oldSubscriptionId)
            THEN Returned(new, << >>, <<SetError(MsgOldSubscriptionNotSet)>>)
            ELSE Returned(new, <<EvCancel(params.type, s.oldSubscriptionId)>>,
                          <<SetPhase("done")>>)
      [] s.phase = "done" -> Returned(new, << >>, << >>)

\* the effect, up to the first await
EffectSteps(params, s) ==
    LET new == [NoRun EXCEPT !.kind = s.phase]
    IN  IF Falsy(params.type)
        THEN Returned(new, << >>, <<SetError(MsgTypeNotSet)>>)
        ELSE IF Falsy(params.oldSubscriptionOrTeamId)
        THEN Returned(new, << >>, <<SetError(MsgOldSubscriptionNotSet)>>)
        ELSE EffectPhaseSteps(new, params, s)

\* the runs that are under way: 0 is the one still wanted, the others are
\* the cancelled ones
RunAt(p, k) == IF k = 0 THEN p.run ELSE p.zombies[k]
Slots(p) == 0..Len(p.zombies)
\* the page after a step of the run in slot k
Committed(p, k, step) ==
    ApplySets(IF k = 0
              THEN [p EXCEPT !.run = step.run]
              ELSE [p EXCEPT !.zombies[k] = step.run],
              step.sets, step.run.stale)

\* the step becomes part of the page and of the stored state
Commit(p, k, step) ==
    /\ Len(Committed(p, k, step).zombies) <= MaxZombies
    /\ page' = Committed(p, k, step)
    /\ stored' = IF p.params = NoParams THEN stored
                 ELSE StoredAfter(stored, step.sets)

IssuesCancel(run) == \E i \in 1..Len(run.effects) : run.effects[i].op = "cancel"

\* the browser opens the page, or loads it again: nothing of the page
\* before is left but the stored state
Load(search) ==
    /\ page' = [NoPage EXCEPT !.loaded = TRUE, !.mounted = TRUE,
                              !.search = search,
                              !.params = parseSearchParams(search),
                              !.effect = "pending"]
    /\ UNCHANGED <<stored, server, authVars>>

\* the component is unmounted: the clean-up of its effect runs
Unmount ==
    /\ page.mounted
    /\ Len(Rendered(page).zombies) <= MaxZombies
    /\ page' = [Rendered(page) EXCEPT
                   !.mounted = FALSE, !.effect = "ran",
                   !.zombies = [j \in 1..Len(Rendered(page).zombies) |->
                                   [Rendered(page).zombies[j] EXCEPT !.stale = TRUE]]]
    /\ UNCHANGED <<stored, server, authVars>>

\* the component is mounted again: useState and useLocalStorage start anew
Mount ==
    /\ page.loaded /\ ~page.mounted
    /\ page' = [page EXCEPT !.mounted = TRUE, !.errorMessage = Absent,
                            !.showBillingSetupModal = FALSE,
                            !.pendingStripeSubscription = FALSE,
                            !.effect = "pending", !.run = NoRun]
    /\ UNCHANGED <<stored, server, authVars>>

\* useEffect: the effect runs after a render
RunEffect ==
    /\ page.mounted /\ page.effect = "pending"
    /\ LET step == EffectSteps(page.params, PageStateOf(page, stored))
       IN  /\ Commit([page EXCEPT !.effect = "ran"], 0, step)
           /\ server' = IF IssuesCancel(step.run)
                        THEN [server EXCEPT !.cancel = "inflight"]
                        ELSE server
    /\ UNCHANGED authVars

\* the server has answered the call-to-action run in slot k
Fetched(k, ok, status) ==
    /\ k \in Slots(page) /\ RunAt(page, k).pc = "fetch"
    /\ Commit(page, k, FetchedSteps(RunAt(page, k), page.params, ok, status))
    /\ UNCHANGED <<server, authVars>>

\* findStripeSubscriptionId has settled for the trigger-signup run in slot k
Found(k, ok) ==
    /\ k \in Slots(page) /\ RunAt(page, k).pc = "findStripeSubscriptionId"
    /\ Commit(page, k, FoundSteps(RunAt(page, k), ok, server.stripe = "active"))
    /\ UNCHANGED <<server, authVars>>

\* subscribeToStripe has settled for the run in slot k: a signup the server
\* accepts starts a subscription unless there is one
Subscribed(k, ok) ==
    /\ k \in Slots(page) /\ RunAt(page, k).pc = "subscribeToStripe"
    /\ Commit(page, k, SubscribedSteps(RunAt(page, k), ok, server.stripe))
    /\ server' = IF ok /\ server.stripe = "none"
                 THEN [server EXCEPT !.stripe = "creating"]
                 ELSE server
    /\ UNCHANGED authVars

\* a poll of the wait-for-signup run in slot k has settled
Polled(k, ok) ==
    /\ k \in Slots(page) /\ RunAt(page, k).pc = "poll"
    /\ Commit(page, k, PolledSteps(RunAt(page, k), ok, server.stripe = "active"))
    /\ UNCHANGED <<server, authVars>>

\* the pause of the wait-for-signup run in slot k is over
Paused(k) ==
    /\ k \in Slots(page) /\ RunAt(page, k).pc = "setTimeout"
    /\ Commit(page, k, PausedSteps(RunAt(page, k)))
    /\ UNCHANGED <<server, authVars>>

\* a cancelled run that has returned is gone
Forget(k) ==
    /\ k \in 1..Len(page.zombies) /\ page.zombies[k].pc = "done"
    /\ page' = [page EXCEPT !.zombies =
                   SubSeq(page.zombies, 1, k - 1)
                   \o SubSeq(page.zombies, k + 1, Len(page.zombies))]
    /\ UNCHANGED <<stored, server, authVars>>

\* disabled={pageState.phase !== "call-to-action" || !pageState.attributionId}
UpgradeDisabled(s) == s.phase # "call-to-action" \/ Falsy(s.attributionId)

\* onUpgradePlan
onUpgradePlanSteps(s) ==
    IF s.phase # "call-to-action" \/ Falsy(s.attributionId)
    THEN << >>
    ELSE <<SetPhase("trigger-signup"), SetModal(TRUE)>>

\* a click on the button "Switch to pay-as-you-go"
onUpgradePlan ==
    /\ page.mounted /\ page.params # NoParams /\ stored.phase # "done"
    /\ ~UpgradeDisabled(stored)
    /\ Commit(page, 0, Step(page.run, onUpgradePlanSteps(stored)))
    /\ UNCHANGED <<server, authVars>>

\* onClose of the BillingSetupModal
CloseModal ==
    /\ page.mounted /\ page.showBillingSetupModal
    /\ Commit(page, 0, Step(page.run, <<SetModal(FALSE)>>))
    /\ UNCHANGED <<server, authVars>>

\* the subscription the server started with Stripe is there
SubscriptionAppears ==
    /\ server.stripe = "creating"
    /\ server' = [server EXCEPT !.stripe = "active"]
    /\ UNCHANGED <<page, stored, authVars>>

\* the cancel call of the old subscription has settled
CancelSettled(ok) ==
    /\ server.cancel = "inflight"
    /\ server' = [server EXCEPT !.cancel = IF ok THEN "ok" ELSE "failed"]
    /\ UNCHANGED <<page, stored, authVars>>

NextPage ==
    \/ \E search \in Searches : Load(search)
    \/ Unmount
    \/ Mount
    \/ RunEffect
    \/ \E k \in 0..MaxZombies, ok \in BOOLEAN, status \in SubscriptionStatuses :
          Fetched(k, ok, status)
    \/ \E k \in 0..MaxZombies, ok \in BOOLEAN : Found(k, ok)
    \/ \E k \in 0..MaxZombies, ok \in BOOLEAN : Subscribed(k, ok)
    \/ \E k \in 0..MaxZombies, ok \in BOOLEAN : Polled(k, ok)
    \/ \E k \in 0..MaxZombies : Paused(k)
    \/ \E k \in 1..MaxZombies : Forget(k)
    \/ onUpgradePlan
    \/ CloseModal
    \/ SubscriptionAppears
    \/ \E ok \in BOOLEAN : CancelSettled(ok)

InitPage ==
    /\ providers = << >>
    /\ userCount = 0
    /\ disableDynamic = FALSE
    /\ authFlow = << >>
    /\ req = [r \in ReqIds |-> Idle]
    /\ pki = SigningOnly
    /\ keyRes = NoKeyRes
    /\ neg = NoNegotiation
    /\ callbackPaths = DefaultCallbackPaths
    /\ PageNotLoaded

SpecPage == InitPage /\ [][NextPage]_vars

(***************************************************************************)
(* Properties.                                                             *)
(***************************************************************************)
EventsOf(q, op) == SelectSeq(q.effects, LAMBDA e : e.op = op)
Did(q, op) == EventsOf(q, op) # << >>
Occurred(q, e) == \E i \in 1..Len(q.effects) : q.effects[i] = e
ChecksOf(q) == [i \in 1..Len(EventsOf(q, "check")) |-> EventsOf(q, "check")[i].arg]
LastEvent(q) == q.effects[Len(q.effects)]
\* the request has attached a flow state, delegated, or is about to
PassedGate(q) ==
    \/ Did(q, "attach") \/ Did(q, "delegate")
    \/ q.pc \in {"attach", "attached", "getCurrentScopes"}
\* the request ended with one redirect, to the denial page with this message
DeniedWith(q, msg) ==
    /\ q.pc = "done"
    /\ Len(EventsOf(q, "redirect")) = 1
    /\ LastEvent(q) = [op |-> "redirect", arg |-> [page |-> "sorry", message |-> msg]]
    /\ ~Did(q, "attach") /\ ~Did(q, "delegate") /\ ~Did(q, "next")
\* ... to the denial page, with some message
Denied(q) ==
    /\ q.pc = "done"
    /\ Len(EventsOf(q, "redirect")) = 1
    /\ LastEvent(q).op = "redirect" /\ LastEvent(q).arg.page = "sorry"
    /\ ~Did(q, "attach") /\ ~Did(q, "delegate") /\ ~Did(q, "next")
\* the request evaluated setup mode, and found it true, or false
FoundSetupMode(q) ==
    /\ Occurred(q, [op |-> "hasAnyStaticProviders", arg |-> FALSE])
    /\ Occurred(q, [op |-> "getUserCount", arg |-> 0])
FoundNoSetupMode(q) ==
    \/ Occurred(q, [op |-> "hasAnyStaticProviders", arg |-> TRUE])
    \/ \E n \in 1..(MaxUsers + 1) : Occurred(q, [op |-> "getUserCount", arg |-> n])

C1_Order ==
    <<"ValidateParams", "RejectOrgProvider", "RejectDisallowedDynamicProvider",
      "RequireSession", "RequireTrustOrSetup">>
C1_Fails(c, q) ==
    CASE c = "ValidateParams" -> Falsy(q.host) \/ q.ap = NoProvider
      [] c = "RejectOrgProvider" -> q.ap.organizationId # ""
      [] c = "RejectDisallowedDynamicProvider" -> disableDynamic /\ ~q.ap.builtin
      [] c = "RequireSession" -> ~q.session
      [] c = "RequireTrustOrSetup" -> ~q.ap.verified /\ FoundNoSetupMode(q)
\* the position of the first failing check, 0 if none fails
C1_FirstFailing(q) ==
    IF \E k \in 1..Len(C1_Order) : C1_Fails(C1_Order[k], q)
    THEN CHOOSE k \in 1..Len(C1_Order) :
             /\ C1_Fails(C1_Order[k], q)
             /\ \A j \in 1..(k - 1) : ~C1_Fails(C1_Order[j], q)
    ELSE 0

\* C1: a login of a caller who is not yet authenticated evaluates its checks
\* in the order ValidateParams, RejectOrgProvider,
\* RejectDisallowedDynamicProvider, RequireSession, RequireTrustOrSetup; the
\* first failing check ends the request with one redirect to the denial page,
\* and no later check, no AuthFlowState write and no delegation follows it.
C1_LoginChecksInOrder ==
    \A r \in ReqIds :
        (req[r].kind = "login" /\ req[r].user = NoUser) =>
            /\ Len(ChecksOf(req[r])) <= Len(C1_Order)
            /\ ChecksOf(req[r]) = SubSeq(C1_Order, 1, Len(ChecksOf(req[r])))
            /\ C1_FirstFailing(req[r]) # 0 =>
                   /\ ChecksOf(req[r]) = SubSeq(C1_Order, 1, C1_FirstFailing(req[r]))
                   /\ Denied(req[r])

C1_Witness ==
    \E r \in ReqIds :
        /\ req[r].kind = "login" /\ req[r].user = NoUser
        /\ C1_FirstFailing(req[r]) = 4
        /\ Denied(req[r])

\* C2: a login whose resolved provider is organization-bound never attaches
\* an AuthFlowState and never delegates to the provider.
C2_NoLoginWithOrgProvider ==
    \A r \in ReqIds :
        (req[r].kind = "login" /\ req[r].ap.organizationId # "") =>
            ~PassedGate(req[r])

C2_Witness ==
    \E r \in ReqIds :
        /\ req[r].kind = "login" /\ req[r].user = NoUser
        /\ req[r].ap.organizationId # "" /\ req[r].ap.verified
        /\ req[r].session /\ userCount = 0 /\ ~hasAnyStaticProviders
        /\ Denied(req[r])

\* C3: a login attaches an AuthFlowState and delegates only if the provider
\* is verified or the request found setup mode true (no builtin provider, and
\* the user store reported zero users).
C3_LoginNeedsTrustOrSetup ==
    \A r \in ReqIds :
        (req[r].kind = "login" /\ PassedGate(req[r])) =>
            req[r].ap.verified \/ FoundSetupMode(req[r])

C3_Witness ==
    \E r \in ReqIds :
        /\ req[r].kind = "login" /\ ~req[r].ap.verified
        /\ Did(req[r], "delegate")

\* C4: setup mode is true iff no configured provider is builtin and the user
\* count is zero; adding one builtin provider or one user in setup mode makes
\* it false.
C4_SetupMode ==
    /\ [](isInSetupMode(userCount) <=>
            /\ \A i \in 1..Len(providers) : ~providers[i].builtin
            /\ userCount = 0)
    /\ [][(/\ isInSetupMode(userCount)
           /\ \/ userCount' = userCount + 1
              \/ \E p \in ProviderInfos :
                    p.builtin /\ providers' = Append(providers, p))
          => ~(isInSetupMode(userCount))']_vars

C4_Witness ==
    /\ Len(providers) = 2
    /\ \A i \in 1..Len(providers) : ~providers[i].builtin
    /\ userCount = 1
    /\ ~isInSetupMode(userCount)

\* Original C5: every login by a caller who is not yet authenticated, with a
\* host that resolves to an unverified provider while setup mode is false, is
\* answered by a denial redirect whose message contains "not permitted".
C5_Original ==
    \A r \in ReqIds :
        (/\ req[r].kind = "login" /\ req[r].pc = "done" /\ req[r].user = NoUser
         /\ req[r].ap # NoProvider /\ ~req[r].ap.verified
         /\ ~isInSetupMode(userCount) /\ ~FoundSetupMode(req[r])
         /\ ~Did(req[r], "throw")) =>
            /\ Denied(req[r])
            /\ Contains(LastEvent(req[r]).arg.message, <<"not", "permitted">>)

\* C5 (amended): a login by a caller who is not yet authenticated, with a host
\* that resolves to an unverified provider, is answered by a denial redirect
\* whose message contains "not permitted" when the provider is
\* organization-bound, or when the request has a session, is not rejected as
\* a disallowed dynamic provider, and finds setup mode false.
C5_UnverifiedNotPermitted ==
    \A r \in ReqIds :
        (/\ req[r].kind = "login" /\ req[r].user = NoUser
         /\ req[r].ap # NoProvider /\ ~req[r].ap.verified
         /\ \/ req[r].ap.organizationId # ""
            \/ /\ ~(disableDynamic /\ ~req[r].ap.builtin)
               /\ req[r].session
               /\ FoundNoSetupMode(req[r])) =>
            /\ Denied(req[r])
            /\ Contains(LastEvent(req[r]).arg.message, <<"not", "permitted">>)

C5_Witness ==
    \E r \in ReqIds :
        /\ req[r].kind = "login" /\ req[r].user = NoUser
        /\ req[r].host = "gitlab.example"
        /\ req[r].ap # NoProvider /\ ~req[r].ap.verified
        /\ req[r].ap.organizationId = ""
        /\ Occurred(req[r], [op |-> "getUserCount", arg |-> 1])
        /\ Denied(req[r])

C6_Order == <<"RequireSession", "RequireAuthenticated", "ValidateParams">>
C6_Fails(c, q) ==
    CASE c = "RequireSession" -> ~q.session
      [] c = "RequireAuthenticated" -> q.user = NoUser
      [] c = "ValidateParams" ->
            Falsy(q.host) \/ Falsy(q.returnTo) \/ q.ap = NoProvider
C6_Message(c) ==
    CASE c = "RequireSession" ->
            <<"No", "session", "found", ".", "Please", "refresh", "the", "browser", ".">>
      [] c = "RequireAuthenticated" ->
            <<"Not", "authenticated", ".", "Please", "login", ".">>
      [] c = "ValidateParams" ->
            <<"Bad", "request", ":", "missing", "parameters", ".">>
C6_FirstFailing(q) ==
    IF \E k \in 1..Len(C6_Order) : C6_Fails(C6_Order[k], q)
    THEN CHOOSE k \in 1..Len(C6_Order) :
             /\ C6_Fails(C6_Order[k], q)
             /\ \A j \in 1..(k - 1) : ~C6_Fails(C6_Order[j], q)
    ELSE 0

\* C6: an authorize request with a false precondition (no session, caller not
\* authenticated, host or returnTo missing, no provider for host) ends with a
\* denial redirect, attaches no AuthFlowState and does not delegate; the
\* session check comes before the authentication check, which comes before
\* the parameter check.
C6_AuthorizePreconditions ==
    \A r \in ReqIds :
        (req[r].kind = "authorize" /\ C6_FirstFailing(req[r]) # 0) =>
            /\ ChecksOf(req[r]) = SubSeq(C6_Order, 1, C6_FirstFailing(req[r]))
            /\ DeniedWith(req[r], C6_Message(C6_Order[C6_FirstFailing(req[r])]))

C6_Witness ==
    \E r \in ReqIds :
        /\ req[r].kind = "authorize"
        /\ req[r].session /\ req[r].user = NoUser /\ Falsy(req[r].host)
        /\ Denied(req[r])

\* C7: authorize passes an unverified, organization-bound provider only for a
\* caller whose membership lookup returned role owner; with no membership or
\* another role the request is denied and attaches no AuthFlowState.
C7_UnverifiedOrgNeedsOwner ==
    \A r \in ReqIds :
        (/\ req[r].kind = "authorize"
         /\ ~req[r].ap.verified /\ req[r].ap.organizationId # "") =>
            /\ (PassedGate(req[r]) \/ req[r].pc = "findTeamMembership2") =>
                   Occurred(req[r], [op |-> "membership",
                                     arg |-> [check |-> "RequireOrgOwner",
                                              role |-> "owner"]])
            /\ \A role \in Roles \ {"owner"} :
                   Occurred(req[r], [op |-> "membership",
                                     arg |-> [check |-> "RequireOrgOwner",
                                              role |-> role]])
                   => Denied(req[r])

C7_Witness ==
    \E r \in ReqIds :
        /\ req[r].kind = "authorize"
        /\ ~req[r].ap.verified /\ req[r].ap.organizationId # ""
        /\ Did(req[r], "attach") /\ Did(req[r], "delegate")

\* C8: authorize passes an unverified provider that is not organization-bound
\* only for the caller whose id is the provider's ownerId; every other caller,
\* also when ownerId is unset, is denied and attaches no AuthFlowState.
C8_UnverifiedNeedsProviderOwner ==
    \A r \in ReqIds :
        (/\ req[r].kind = "authorize" /\ C6_FirstFailing(req[r]) = 0
         /\ ~req[r].ap.verified /\ req[r].ap.organizationId = "") =>
            /\ PassedGate(req[r]) => req[r].user = req[r].ap.ownerId
            /\ req[r].user # req[r].ap.ownerId => Denied(req[r])

C8_Witness ==
    \E r \in ReqIds :
        /\ req[r].kind = "authorize" /\ C6_FirstFailing(req[r]) = 0
        /\ ~req[r].ap.verified /\ req[r].ap.organizationId = ""
        /\ req[r].user = req[r].ap.ownerId
        /\ Did(req[r], "attach") /\ Did(req[r], "delegate")

\* C9: authorize passes an organization-bound provider, verified or not, only
\* for a caller whose membership lookup found a membership; without one the
\* request is denied and attaches no AuthFlowState.
C9_OrgNeedsMember ==
    \A r \in ReqIds :
        (req[r].kind = "authorize" /\ req[r].ap.organizationId # "") =>
            /\ PassedGate(req[r]) =>
                   \E role \in Roles \ {""} :
                       Occurred(req[r], [op |-> "membership",
                                         arg |-> [check |-> "RequireOrgMember",
                                                  role |-> role]])
            /\ Occurred(req[r], [op |-> "membership",
                                 arg |-> [check |-> "RequireOrgMember", role |-> ""]])
               => Denied(req[r])

C9_Witness ==
    \E r \in ReqIds :
        /\ req[r].kind = "authorize"
        /\ req[r].ap.organizationId # "" /\ req[r].ap.verified
        /\ Occurred(req[r], [op |-> "membership",
                             arg |-> [check |-> "RequireOrgMember", role |-> "member"]])
        /\ Did(req[r], "delegate")

\* the elements of a sequence
Range(seq) == {seq[i] : i \in 1..Len(seq)}
\* without duplicate and in ascending order
SortedUnique(seq) == \A i, j \in 1..Len(seq) : i < j => ScopeLess(seq[i], seq[j])

\* C10: with override enabled, the scope list passed to the provider is the
\* deduplicated, lexicographically sorted list of the requested scopes, and
\* holds no scope that was not requested.
C10_OverrideSortedRequested ==
    \A r \in ReqIds :
        (/\ req[r].kind = "authorize" /\ req[r].override = "true"
         /\ Len(ParseScopes(req[r].scopes)) > 0
         /\ Did(req[r], "delegate")) =>
            /\ Range(LastEvent(req[r]).arg.scopes) = Range(ParseScopes(req[r].scopes))
            /\ SortedUnique(LastEvent(req[r]).arg.scopes)

\* the requested scopes of a request: the names its scopes parameter lists,
\* or the provider's defaults when it lists none
Requested(q) ==
    IF ParseScopes(q.scopes) = << >> /\ HasRequirements(q.ap.host)
    THEN DefaultScopes(q.ap.host)
    ELSE ParseScopes(q.scopes)
\* the current scopes the request read from the token store
CurrentOf(q) == EventsOf(q, "currentScopes")[1].arg
\* the scope list the request handed to the provider
DelegatedScopes(q) == EventsOf(q, "delegate")[1].arg.scopes

\* C11: without override, the list passed to the provider is sorted, has no
\* duplicate and holds exactly the current and the requested scopes, and the
\* provider's defaults in addition exactly when the current scopes are empty.
C11_MergeIsUnion ==
    \A r \in ReqIds :
        (/\ req[r].kind = "authorize" /\ req[r].override # "true"
         /\ Did(req[r], "delegate")) =>
            /\ Did(req[r], "currentScopes")
            /\ SortedUnique(DelegatedScopes(req[r]))
            /\ Range(DelegatedScopes(req[r])) =
                   Range(CurrentOf(req[r])) \cup Range(Requested(req[r]))
                   \cup (IF CurrentOf(req[r]) = << >>
                         THEN Range(DefaultScopes(req[r].ap.host)) ELSE {})

\* scopes=repo,user with current [user] and defaults [user, email]
C11_Witness ==
    \E r \in ReqIds :
        /\ req[r].kind = "authorize" /\ req[r].override # "true"
        /\ req[r].ap.host = "github.com"
        /\ req[r].scopes = <<"repo", ",", "user">>
        /\ Did(req[r], "delegate")
        /\ CurrentOf(req[r]) = <<"user">>
        /\ DelegatedScopes(req[r]) = <<"repo", "user">>

\* C12: every scope list handed to the provider, with or without override and
\* also when the defaults stand in for the requested scopes, is in ascending
\* order and has no duplicate.
C12_DelegatedSortedUnique ==
    \A r \in ReqIds :
        (req[r].kind = "authorize" /\ Did(req[r], "delegate")) =>
            SortedUnique(DelegatedScopes(req[r]))

\* C14: with override enabled, whatever scopes A the caller currently holds,
\* no element of A is in the list passed to the provider unless it is also a
\* requested scope; the current scopes are not looked up at all.
C14_OverrideIgnoresCurrent ==
    \A r \in ReqIds :
        (/\ req[r].kind = "authorize" /\ req[r].override = "true"
         /\ Did(req[r], "delegate")) =>
            /\ ~Did(req[r], "currentScopes")
            /\ \A A \in TokenScopeLists :
                   \A x \in Range(A) :
                       x \in Range(DelegatedScopes(req[r]))
                           => x \in Range(Requested(req[r]))

\* override=true, scopes=repo: the provider is handed [repo]
C14_Witness ==
    \E r \in ReqIds :
        /\ req[r].kind = "authorize" /\ req[r].override = "true"
        /\ req[r].scopes = <<"repo">>
        /\ Did(req[r], "delegate")
        /\ DelegatedScopes(req[r]) = <<"repo">>

\* C13: without override the computed list does not depend on the order in
\* which the current scopes, the requested scopes or the defaults are listed,
\* and computing it again with the result as the current scopes gives the
\* result again.
C13_OrderIndependentIdempotent ==
    /\ (neg.pc \in {"negotiated", "renegotiated"} /\ ~neg.override) =>
           /\ \A a \in TokenScopeLists :
                  Range(a) = Range(neg.current) =>
                      negotiate(neg.parsed, a, neg.requirements, FALSE) = neg.result
           /\ \A b \in TokenScopeLists :
                  Range(b) = Range(neg.parsed) =>
                      negotiate(b, neg.current, neg.requirements, FALSE) = neg.result
           /\ \A d \in TokenScopeLists :
                  Range(d) = Range(neg.requirements.default) =>
                      negotiate(neg.parsed, neg.current,
                                [neg.requirements EXCEPT !.default = d], FALSE)
                          = neg.result
    /\ (neg.pc = "renegotiated" /\ ~neg.override) => neg.again = neg.result

\* requested [user, repo], current [user], defaults [user, email]: [repo, user]
\* both times
C13_Witness ==
    /\ neg.pc = "renegotiated" /\ ~neg.override
    /\ neg.parsed = <<"user", "repo">> /\ neg.current = <<"user">>
    /\ neg.requirements = [present |-> TRUE, default |-> <<"user", "email">>]
    /\ neg.result = <<"repo", "user">>
    /\ neg.again = <<"repo", "user">>

\* the redirects of a request, in order
RedirectsOf(q) ==
    [i \in 1..Len(EventsOf(q, "redirect")) |-> EventsOf(q, "redirect")[i].arg]

\* C15: deauthorize calls the external deauthorize(identity, providerId) only
\* for an authenticated caller whose host parameter resolves to a provider,
\* and then with that caller and that provider; an unauthenticated caller is
\* answered "Not authenticated" before the host parameter is looked at, a
\* missing or unresolvable host with the bad-request message.
C15_DeauthorizeGuards ==
    \A r \in ReqIds :
        req[r].kind = "deauthorize" =>
            /\ Did(req[r], "deauthorize") =>
                   /\ req[r].user # NoUser
                   /\ ~Falsy(req[r].host)
                   /\ getAuthProviderForHost(req[r].host) # NoProvider
                   /\ EventsOf(req[r], "deauthorize") =
                          <<Ev("deauthorize",
                               [user |-> req[r].user, authProviderId |-> req[r].host])>>
            /\ req[r].user = NoUser =>
                   /\ ChecksOf(req[r]) = <<"RequireAuthenticated">>
                   /\ DeniedWith(req[r], MsgNotAuthenticated)
                   /\ Contains(MsgNotAuthenticated, <<"Not", "authenticated">>)
            /\ (/\ req[r].user # NoUser
                /\ Falsy(req[r].host) \/ getAuthProviderForHost(req[r].host) = NoProvider)
               => /\ DeniedWith(req[r], MsgBadRequest)
                  /\ ~Did(req[r], "deauthorize")

\* the call was made, for an authenticated caller and a configured host
C15_Witness ==
    \E r \in ReqIds :
        /\ req[r].kind = "deauthorize" /\ req[r].user = "u1"
        /\ Occurred(req[r], Ev("deauthorize",
                               [user |-> "u1", authProviderId |-> "github.com"]))

\* C16: when the external deauthorize succeeds the response is one redirect
\* to returnTo, the dashboard when returnTo is absent, and the error handler
\* is not called; when it fails the error is passed to the error handler and
\* the response is a redirect to the denial page with the error's message.
C16_DeauthorizeOutcome ==
    \A r \in ReqIds :
        (/\ req[r].kind = "deauthorize" /\ req[r].pc = "done"
         /\ Did(req[r], "deauthorize")) =>
            IF Did(req[r], "catch")
            THEN LET error == EventsOf(req[r], "catch")[1].arg
                 IN  /\ EventsOf(req[r], "next") = <<Ev("next", error)>>
                     /\ Len(RedirectsOf(req[r])) = 1
                     /\ RedirectsOf(req[r])[1].page = "sorry"
                     /\ Contains(RedirectsOf(req[r])[1].message, error.message)
            ELSE /\ ~Did(req[r], "next")
                 /\ RedirectsOf(req[r]) =
                        <<Url(IF Falsy(req[r].returnTo) THEN DashboardUrl
                              ELSE req[r].returnTo)>>

\* a failed call whose error has a message
C16_Witness ==
    \E r \in ReqIds :
        /\ req[r].kind = "deauthorize" /\ req[r].pc = "done"
        /\ Did(req[r], "deauthorize")
        /\ Did(req[r], "catch")
        /\ EventsOf(req[r], "catch")[1].arg.message # << >>
        /\ Did(req[r], "next") /\ Did(req[r], "redirect")

\* the ids of the signing key and of the validating keys
KeyRingIds == {keypairs(pki)[i].id : i \in 1..Len(keypairs(pki))}

\* C17: the key resolution hands out a public key exactly for a kid that is
\* the id of the signing key or of a validating key, and then that key's; a
\* token without kid fails with the missing-kid error, and a token whose kid
\* is no key's id fails with the unknown-key-id error and nothing else.
C17_KeyResolution ==
    keyRes # NoKeyRes =>
        IF Falsy(keyRes.kid)
        THEN keyRes.outcome = Ev("throw", MsgNoKid)
        ELSE IF keyRes.kid \in KeyRingIds
        THEN keyRes.outcome = Ev("done", PublicKeyOf(keyRes.kid))
        ELSE keyRes.outcome = Ev("throw", MsgUnknownKid)

\* the request ended without handing over to the provider, to the next
\* handler or to returnTo
Failing(q) ==
    /\ q.kind \in {"login", "authorize", "deauthorize"}
    /\ q.pc = "done"
    /\ ~Did(q, "delegate")
    /\ ~(q.kind = "login" /\ Did(q, "next"))
    /\ ~(q.kind = "deauthorize" /\ Did(q, "deauthorize") /\ ~Did(q, "catch"))

\* C19: every failing request to the login, the authorize or the deauthorize
\* gate, one in which a store call (user count, membership lookup, the save
\* of the AuthFlowState) throws included, ends with a redirect.
C19_FailuresRedirect ==
    \A r \in ReqIds :
        Failing(req[r]) =>
            /\ Len(EventsOf(req[r], "redirect")) = 1
            /\ LastEvent(req[r]).op = "redirect"

\* a store lookup of the request failed
LookupFailedIn(q) ==
    \E i \in 1..Len(q.effects) :
        /\ q.effects[i].op = "throw"
        /\ q.effects[i].arg \in {"getUserCount", "findTeamMembership"}

\* C20: a request whose user-count lookup (login, setup mode) or membership
\* lookup (authorize) fails does not pass the check the lookup serves: it is
\* over, has attached no AuthFlowState and has not delegated to the provider.
C20_LookupFailClosed ==
    \A r \in ReqIds :
        LookupFailedIn(req[r]) =>
            /\ req[r].pc = "done"
            /\ ~Did(req[r], "attach")
            /\ ~Did(req[r], "delegate")
            /\ LastEvent(req[r]).op = "throw"

\* a failed user-count lookup in a login, a failed membership lookup in an
\* authorize
C20_WitnessLogin ==
    \E r \in ReqIds :
        /\ req[r].kind = "login"
        /\ Occurred(req[r], Ev("throw", "getUserCount"))
C20_Witness ==
    \E r \in ReqIds :
        /\ req[r].kind = "authorize"
        /\ Occurred(req[r], Ev("throw", "findTeamMembership"))
        /\ req[r].ap.organizationId # ""

\* the AuthFlowState the request attached
AttachedState(q) == EventsOf(q, "attach")[1].arg

\* C24: override is in force only for override=true, literally: the request
\* then persists overrideScopes = TRUE and hands the provider the requested
\* scopes without looking up the current ones; with any other value, or
\* without the parameter, it persists overrideScopes = FALSE, looks the
\* current scopes up and hands over their sorted union with the requested.
C24_OverrideLiteralTrue ==
    \A r \in ReqIds :
        req[r].kind = "authorize" =>
            /\ Did(req[r], "attach") =>
                   AttachedState(req[r]).overrideScopes = (req[r].override = "true")
            /\ Did(req[r], "delegate") =>
                   IF req[r].override = "true"
                   THEN /\ ~Did(req[r], "currentScopes")
                        /\ DelegatedScopes(req[r]) = Requested(req[r])
                   ELSE /\ Did(req[r], "currentScopes")
                        /\ SortedUnique(DelegatedScopes(req[r]))
                        /\ Range(CurrentOf(req[r])) \cup Range(Requested(req[r]))
                               \subseteq Range(DelegatedScopes(req[r]))

\* override=TRUE is not override=true: the current scope is merged in
C24_Witness ==
    \E r \in ReqIds :
        /\ req[r].kind = "authorize" /\ req[r].override = "TRUE"
        /\ req[r].scopes = <<"repo">>
        /\ Did(req[r], "delegate")
        /\ AttachedState(req[r]).overrideScopes = FALSE
        /\ CurrentOf(req[r]) = <<"user">>
        /\ DelegatedScopes(req[r]) = <<"repo", "user">>

\* a login that attached its state, a deauthorize that succeeded: with the
\* dashboard URL as returnTo when the request names none
C25_LoginDefault(q) ==
    (q.kind = "login" /\ Falsy(q.returnTo) /\ Did(q, "attach")) =>
        AttachedState(q).returnTo = DashboardUrl
C25_DeauthorizeDefault(q) ==
    (/\ q.kind = "deauthorize" /\ Falsy(q.returnTo) /\ q.pc = "done"
     /\ Did(q, "deauthorize") /\ ~Did(q, "catch")) =>
        RedirectsOf(q) = <<Url(DashboardUrl)>>
\* an authorize request that lacks nothing but returnTo
C25_AuthorizeWithoutReturnTo(q) ==
    /\ q.kind = "authorize" /\ Falsy(q.returnTo)
    /\ q.session /\ q.user # NoUser
    /\ ~Falsy(q.host) /\ q.ap # NoProvider

\* C25 as claimed: in login, authorize and deauthorize a request without
\* returnTo proceeds, with the dashboard URL as returnTo.
C25_Original ==
    \A r \in ReqIds :
        /\ C25_LoginDefault(req[r])
        /\ C25_DeauthorizeDefault(req[r])
        /\ C25_AuthorizeWithoutReturnTo(req[r]) =>
               /\ ~DeniedWith(req[r], MsgBadRequest)
               /\ Did(req[r], "attach") =>
                      AttachedState(req[r]).returnTo = DashboardUrl

\* C25, amended: login and deauthorize proceed with the dashboard URL as
\* returnTo when the request names none; authorize does not proceed, it
\* answers such a request with the bad-request denial and attaches nothing.
C25_ReturnToDefault ==
    \A r \in ReqIds :
        /\ C25_LoginDefault(req[r])
        /\ C25_DeauthorizeDefault(req[r])
        /\ C25_AuthorizeWithoutReturnTo(req[r]) =>
               /\ DeniedWith(req[r], MsgBadRequest)
               /\ ~Did(req[r], "attach")

\* a login without returnTo that attached its state
C25_Witness ==
    \E r \in ReqIds :
        /\ req[r].kind = "login" /\ req[r].returnTo = Absent
        /\ Did(req[r], "attach")
        /\ AttachedState(req[r]).returnTo = DashboardUrl

\* the counter increments of a request, in order
MetricsOf(q) ==
    [i \in 1..Len(EventsOf(q, "metric")) |-> EventsOf(q, "metric")[i].arg]

\* C26: a login that ends because the session is missing increments
\* failed_client once and failed never; a login that ends by the trust /
\* setup-mode check increments failed once and failed_client never.
C26_LoginFailureCounters ==
    \A r \in ReqIds :
        (req[r].kind = "login" /\ req[r].user = NoUser /\ req[r].pc = "done") =>
            /\ C1_FirstFailing(req[r]) = 4 =>
                   /\ DeniedWith(req[r], MsgNoSession)
                   /\ MetricsOf(req[r]) =
                          <<[status |-> "failed_client", host |-> req[r].ap.host]>>
            /\ C1_FirstFailing(req[r]) = 5 =>
                   /\ Denied(req[r])
                   /\ MetricsOf(req[r]) =
                          <<[status |-> "failed", host |-> req[r].ap.host]>>

\* a login denied by the trust check after the user count was looked up
C26_Witness ==
    \E r \in ReqIds :
        /\ req[r].kind = "login" /\ req[r].pc = "done"
        /\ C1_FirstFailing(req[r]) = 5
        /\ Did(req[r], "getUserCount")
        /\ MetricsOf(req[r]) = <<[status |-> "failed", host |-> "github.com"]>>

\* C27: every termination of a gate for missing required parameters (no
\* host, no provider for the host, no returnTo in authorize) is counted as
\* a client-attributable failure, as the missing session is.
C27_MissingParamsCounted ==
    \A r \in ReqIds :
        (/\ req[r].kind \in {"login", "authorize", "deauthorize"}
         /\ DeniedWith(req[r], MsgBadRequest)) =>
            \E i \in 1..Len(MetricsOf(req[r])) :
                MetricsOf(req[r])[i].status = "failed_client"

\* the attach and the delegation of a request, in the order they happened
AttachAndDelegate(q) ==
    SelectSeq(q.effects, LAMBDA e : e.op \in {"attach", "delegate"})
\* the state a login is to persist
C28_Expected(q) ==
    [host |-> q.host,
     returnTo |-> IF q.returnTo \in {Absent, ""} THEN DashboardUrl ELSE q.returnTo]

\* C28: a login that passed all checks persists exactly {host, returnTo},
\* returnTo being the dashboard URL when the parameter is absent or empty;
\* the write is in the session before the provider's authorize is called, and
\* the provider is called exactly once.
C28_LoginAttachThenDelegate ==
    \A r \in ReqIds :
        req[r].kind = "login" =>
            /\ Did(req[r], "attach") =>
                   /\ EventsOf(req[r], "attach") =
                          <<Ev("attach", C28_Expected(req[r]))>>
                   /\ req[r].pc = "done" =>
                          AttachAndDelegate(req[r]) =
                              <<Ev("attach", C28_Expected(req[r])),
                                EvDelegate(req[r].host)>>
            /\ Did(req[r], "delegate") =>
                   /\ Len(EventsOf(req[r], "delegate")) = 1
                   /\ Head(AttachAndDelegate(req[r])).op = "attach"

\* a login with an empty returnTo parameter that went through
C28_Witness ==
    \E r \in ReqIds :
        /\ req[r].kind = "login" /\ req[r].returnTo = "" /\ req[r].pc = "done"
        /\ AttachAndDelegate(req[r]) =
               <<Ev("attach", [host |-> "github.com", returnTo |-> DashboardUrl]),
                 EvDelegate("github.com")>>

\* the request's membership lookup for this check found this role
FoundRole(q, check, role) ==
    Occurred(q, [op |-> "membership", arg |-> [check |-> check, role |-> role]])
\* every precondition and every policy check the provider calls for holds
C29_AllChecksPass(q) ==
    /\ q.session /\ q.user # NoUser
    /\ ~Falsy(q.returnTo) /\ ~Falsy(q.host) /\ q.ap # NoProvider
    /\ (~q.ap.verified /\ q.ap.organizationId # "")
           => FoundRole(q, "RequireOrgOwner", "owner")
    /\ (~q.ap.verified /\ q.ap.organizationId = "") => q.user = q.ap.ownerId
    /\ q.ap.organizationId # ""
           => \E role \in Roles \ {""} : FoundRole(q, "RequireOrgMember", role)

\* C29: authorize writes the AuthFlowState {host, returnTo, overrideScopes}
\* only when every precondition and every policy check has passed; a request
\* that ends denied has written none and its steps leave the session's state
\* as it was; a request that has written it ends by handing the provider the
\* computed scope list.
C29_AttachAfterPolicy ==
    /\ [](\A r \in ReqIds :
              req[r].kind = "authorize" =>
                  /\ (Did(req[r], "attach") \/ req[r].pc = "attach") =>
                         C29_AllChecksPass(req[r])
                  /\ Did(req[r], "attach") =>
                         /\ EventsOf(req[r], "attach") =
                                <<Ev("attach",
                                     [host |-> req[r].host,
                                      returnTo |-> req[r].returnTo,
                                      overrideScopes |-> (req[r].override = "true")])>>
                         /\ ~Did(req[r], "redirect") /\ ~Did(req[r], "throw")
                         /\ req[r].pc \in {"attached", "getCurrentScopes", "done"}
                         /\ req[r].pc = "done" =>
                                /\ Len(EventsOf(req[r], "delegate")) = 1
                                /\ LastEvent(req[r]) =
                                       EvDelegateScopes(
                                           req[r].host,
                                           negotiate(ParseScopes(req[r].scopes),
                                                     IF Did(req[r], "currentScopes")
                                                     THEN CurrentOf(req[r]) ELSE << >>,
                                                     Requirements(req[r].host),
                                                     req[r].override = "true"))
                  /\ Denied(req[r]) => ~Did(req[r], "attach"))
    /\ [][\A r \in ReqIds :
              (req'[r].kind = "authorize" /\ req'[r] # req[r] /\ Denied(req'[r]))
                  => authFlow' = authFlow]_vars

\* a request denied by a membership lookup while an earlier request's state
\* is in the session
C29_Witness ==
    \E r \in ReqIds :
        /\ req[r].kind = "authorize" /\ req[r].pc = "done"
        /\ authFlow # << >>
        /\ Denied(req[r]) /\ Did(req[r], "membership")

\* the scope names of the raw parameter, in the order they are written:
\* what is left of it without the commas and the blanks
NamesIn(raw) == SelectSeq(raw, LAMBDA t : t \in ScopeNames)
\* ... or the provider's defaults when it names no scope
C30_Requested(q) ==
    IF NamesIn(q.scopes) = << >> THEN DefaultScopes(q.ap.host) ELSE NamesIn(q.scopes)

\* C30: the requested scopes are the entries of the scopes parameter between
\* its commas, trimmed, without the empty ones; when none is left (no
\* parameter, an empty one, only commas and blanks) the provider's default
\* scopes are the requested scopes, with override as well as without.
C30_ParsedOrDefaults ==
    \A r \in ReqIds :
        (req[r].kind = "authorize" /\ Did(req[r], "delegate")) =>
            IF req[r].override = "true"
            THEN DelegatedScopes(req[r]) = C30_Requested(req[r])
            ELSE Range(DelegatedScopes(req[r])) =
                     Range(C30_Requested(req[r])) \cup Range(CurrentOf(req[r]))
                     \cup (IF CurrentOf(req[r]) = << >>
                           THEN Range(DefaultScopes(req[r].ap.host)) ELSE {})

\* override=true with scopes=", ,": the defaults are handed over
C30_Witness ==
    \E r \in ReqIds :
        /\ req[r].kind = "authorize" /\ req[r].override = "true"
        /\ req[r].scopes = <<",", " ", ",">>
        /\ req[r].ap.host = "github.com"
        /\ Did(req[r], "delegate")
        /\ DelegatedScopes(req[r]) = <<"user", "email">>


\* the requests routed by authCallbackHandler
CallbacksOf(q) == EventsOf(q, "callback")
\* the router's answer to a URL under a registry: the callback of the first
\* provider, in registry order, whose callback path the URL starts with, when
\* the URL is one the router looks at; the next handler otherwise
C23_Routed(q, registry, paths, lookedAt) ==
    LET matching == {i \in 1..Len(registry) :
                        StartsWith(q.url, paths[registry[i].host])}
    IN IF lookedAt /\ matching # {}
       THEN \E i \in matching :
               /\ \A j \in matching : i <= j
               /\ q.pc = "callback"
               /\ q.effects = <<EvCallback(registry[i].host)>>
       ELSE q.pc = "done" /\ q.effects = <<EvNext>>
\* a routed request saw one callback at most, and never both a callback and
\* the next handler
C23_AtMostOnce ==
    \A r \in ReqIds :
        req[r].kind = "callback" =>
            /\ Len(CallbacksOf(req[r])) <= 1
            /\ ~(Did(req[r], "callback") /\ Did(req[r], "next"))

\* C23 as stated: every request whose URL starts with the callback path of a
\* configured provider goes to the callback of the first such provider, and
\* every other request to the next handler
C23_Original ==
    [][\A r \in ReqIds :
          (req[r].pc = "idle" /\ req'[r].kind = "callback") =>
              C23_Routed(req'[r], providers, callbackPaths, TRUE)]_vars

\* C23: a request whose URL starts with "/auth/" and with the callback path
\* of at least one configured provider is handled by the callback of the
\* first such provider in registry order, once, and not passed to the next
\* handler; every other request is passed to the next handler and no
\* callback is invoked
C23_CallbackRouting ==
    /\ [](C23_AtMostOnce)
    /\ [][\A r \in ReqIds :
             (req[r].pc = "idle" /\ req'[r].kind = "callback") =>
                 C23_Routed(req'[r], providers, callbackPaths,
                            StartsWith(req'[r].url, AuthPath))]_vars

\* two providers' callback paths match the URL, and the first in the
\* registry, which is not the one with the longer path, got the callback
C23_Witness ==
    \E r \in ReqIds :
        /\ req[r].kind = "callback"
        /\ req[r].pc = "done"
        /\ Len(providers) = 2
        /\ \A i \in 1..2 : StartsWith(req[r].url, callbackPaths[providers[i].host])
        /\ callbackPaths[providers[1].host] # callbackPaths[providers[2].host]
        /\ CallbacksOf(req[r]) = <<EvCallback(providers[1].host)>>


\* the flow state a provider's callback found in the session
FlowRead(q) == EventsOf(q, "authFlow")[1].arg
\* the callback found a state written for another host than its provider's
HostMismatch(q) ==
    /\ q.kind = "callback"
    /\ Did(q, "authFlow")
    /\ FlowRead(q) # << >>
    /\ FlowRead(q)[1].host # q.ap.host

\* C22: the callback of a flow whose state was overwritten by an authorize
\* flow for another host finds that the stored host is not its provider's
\* and terminates: it completes nothing, for no provider, and leaves the
\* state of the other flow in the session
C22_OverwrittenFlowTerminates ==
    /\ [](\A r \in ReqIds :
             /\ HostMismatch(req[r]) =>
                   /\ req[r].effects[Len(req[r].effects)] =
                          Ev("terminate", req[r].ap.host)
                   /\ ~Did(req[r], "complete")
             /\ Did(req[r], "complete") =>
                   /\ FlowRead(req[r]) # << >>
                   /\ FlowRead(req[r])[1].host = req[r].ap.host
                   /\ EventsOf(req[r], "complete") =
                          <<Ev("complete", req[r].ap.host)>>)
    /\ [][\A r \in ReqIds :
             (req[r].pc = "callback" /\ HostMismatch(req'[r])) =>
                 authFlow' = authFlow /\ authFlow # << >>]_vars

\* an authorize flow for one host wrote its state while the callback of a
\* provider for another host was on its way; the callback terminated and
\* the state is still the later flow's
C22_Witness ==
    \E r, o \in ReqIds :
        /\ HostMismatch(req[r])
        /\ req[r].pc = "done"
        /\ req[o].kind = "authorize"
        /\ Did(req[o], "attach")
        /\ req[o].host # req[r].ap.host
        /\ authFlow = <<AttachedState(req[o])>>


\* the parameters of an initiation: host and returnTo in a login, host,
\* returnTo and overrideScopes in an authorize
C21_Params(q) ==
    IF q.kind = "login"
    THEN [host |-> q.host,
          returnTo |-> IF Falsy(q.returnTo) THEN DashboardUrl ELSE q.returnTo]
    ELSE [host |-> q.host, returnTo |-> q.returnTo,
          overrideScopes |-> (q.override = "true")]
\* the request's write of its flow state lands in this step
C21_WriteLands(r) ==
    Len(EventsOf(req'[r], "attach")) > Len(EventsOf(req[r], "attach"))

\* C21: whatever the order in which login and authorize initiations of one
\* session write, the session holds one flow state at most; a write that
\* lands leaves exactly the parameters of its initiation, with no field of
\* the state it replaces, and nothing else changes the state
C21_LastWriteWins ==
    /\ [](Len(authFlow) <= 1)
    /\ [][IF \E r \in ReqIds : C21_WriteLands(r)
          THEN \E r \in ReqIds :
                  /\ C21_WriteLands(r)
                  /\ authFlow' = <<C21_Params(req[r])>>
          ELSE authFlow' = authFlow]_vars

\* a login wrote after an authorize that asked for a scope override: the
\* session holds the login's host and returnTo and no overrideScopes
C21_Witness ==
    \E r, o \in ReqIds :
        /\ req[r].kind = "login"
        /\ req[r].pc = "attached"
        /\ req[o].kind = "authorize"
        /\ Did(req[o], "attach")
        /\ AttachedState(req[o]).overrideScopes
        /\ authFlow = <<[host |-> req[r].host, returnTo |-> DashboardUrl]>>
        /\ req[o].host # req[r].host


\* C35: a request whose URL does not start with "/auth/" is passed to the
\* next handler and no provider's callback is invoked, also when the URL
\* starts with the callback path of a configured provider
C35_OnlyUnderAuth ==
    \A r \in ReqIds :
        (req[r].kind = "callback" /\ ~StartsWith(req[r].url, AuthPath)) =>
            /\ req[r].pc = "done"
            /\ req[r].effects = <<EvNext>>

\* a URL outside "/auth/" that starts with the callback path of a
\* configured provider went to the next handler
C35_Witness ==
    \E r \in ReqIds :
        /\ req[r].kind = "callback"
        /\ ~StartsWith(req[r].url, AuthPath)
        /\ MatchingProviders(providers, callbackPaths, req[r].url) # {}
        /\ req[r].effects = <<EvNext>>


\* C31: a login of a caller who is authenticated already goes to the next
\* handler and does nothing else, whatever its session, host and provider:
\* no check, no redirect, no counter, no provider, and the flow state of the
\* session stays as it is
C31_AuthenticatedLoginPasses ==
    /\ [](\A r \in ReqIds :
             (req[r].kind = "login" /\ req[r].user # NoUser) =>
                 req[r].pc = "done" /\ req[r].effects = <<EvNext>>)
    /\ [][\A r \in ReqIds :
             (req[r].pc = "idle" /\ req'[r].kind = "login"
              /\ req'[r].user # NoUser) => authFlow' = authFlow]_vars

\* an authenticated caller without a session and without a host passed,
\* while another login's flow state is in the session
C31_Witness ==
    /\ req["r1"].kind = "login"
    /\ req["r1"].user # NoUser
    /\ ~req["r1"].session
    /\ req["r1"].host = Absent
    /\ req["r1"].effects = <<EvNext>>
    /\ authFlow # << >>


\* the terminal response actions of a request: redirects, hand-overs to the
\* next handler, and delegations to a provider's authorize or callback
TerminalActions(q) ==
    SelectSeq(q.effects,
              LAMBDA e : e.op \in {"redirect", "next", "delegate", "callback"})
\* the handler returned, and not by an exception
ReturnedNormally(q) ==
    /\ q.pc = "done" \/ (q.kind = "callback" /\ q.pc = "callback")
    /\ \/ ~Did(q, "throw")
       \/ Did(q, "catch")

\* C32: an invocation of authenticate, authorize, deauthorize or the callback
\* router that returns normally performed exactly one terminal response
\* action: one redirect, one hand-over to the next handler, or one delegation
\* to a provider
C32_OneTerminalAction ==
    \A r \in ReqIds :
        (req[r].kind \in {"login", "authorize", "deauthorize", "callback"}
         /\ ReturnedNormally(req[r])) =>
            Len(TerminalActions(req[r])) = 1


\* the roles the membership lookups of a request found
RolesFound(q) ==
    {EventsOf(q, "membership")[i].arg.role :
        i \in 1..Len(EventsOf(q, "membership"))}
\* the four cases in which the policy lets a caller with this role in the
\* provider's organization through
C33_Permitted(q, role) ==
    \/ q.ap.verified /\ q.ap.organizationId = ""
    \/ q.ap.verified /\ q.ap.organizationId # "" /\ role # ""
    \/ ~q.ap.verified /\ q.ap.organizationId # "" /\ role = "owner"
    \/ ~q.ap.verified /\ q.ap.organizationId = "" /\ q.user = q.ap.ownerId
\* an authorize request past its preconditions that has ended, without a
\* failed call and with the same membership at every lookup
C33_Settled(q) ==
    /\ q.kind = "authorize" /\ q.pc = "done"
    /\ q.session /\ q.user # NoUser
    /\ ~Falsy(q.host) /\ ~Falsy(q.returnTo) /\ q.ap # NoProvider
    /\ ~Did(q, "throw")
    /\ Cardinality(RolesFound(q)) <= 1
    /\ q.ap.organizationId # "" => RolesFound(q) # {}

\* C33: for an authenticated caller with a session, host, returnTo and a
\* resolvable provider, when no call fails and the membership is the same at
\* every lookup, authorize attaches the flow state and delegates if and only
\* if the provider is verified and not organization-bound, or verified,
\* organization-bound and the caller a member, or unverified,
\* organization-bound and the caller owner, or unverified, not
\* organization-bound and the caller's id the ownerId
C33_PolicyCompleteAndSound ==
    \A r \in ReqIds :
        C33_Settled(req[r]) =>
            /\ Did(req[r], "attach") <=> Did(req[r], "delegate")
            /\ Did(req[r], "delegate") <=>
                   \E role \in (IF RolesFound(req[r]) = {} THEN {""}
                                ELSE RolesFound(req[r])) :
                       C33_Permitted(req[r], role)

\* a member, not owner, of the organization of a verified provider was let
\* through
C33_Witness ==
    \E r \in ReqIds :
        /\ C33_Settled(req[r])
        /\ req[r].ap.verified /\ req[r].ap.organizationId # ""
        /\ RolesFound(req[r]) = {"member"}
        /\ Did(req[r], "attach") /\ Did(req[r], "delegate")


\* the role found by the last membership lookup of a request
LastRoleFound(q) ==
    EventsOf(q, "membership")[Len(EventsOf(q, "membership"))].arg.role

\* C34: with memberships changing while a request runs, authorize attaches a
\* flow state or delegates to an unverified organization-bound provider only
\* for a caller who was owner of the organization at the last membership
\* lookup of the request
C34_OwnerAtLastLookup ==
    \A r \in ReqIds :
        (/\ req[r].kind = "authorize"
         /\ ~req[r].ap.verified /\ req[r].ap.organizationId # ""
         /\ Did(req[r], "attach") \/ Did(req[r], "delegate")) =>
            /\ Did(req[r], "membership")
            /\ LastRoleFound(req[r]) = "owner"


(***************************************************************************)
(* Properties of the switch-to-pay-as-you-go page.                         *)
(***************************************************************************)
\* the last thing the run did
LastEffect(run) == run.effects[Len(run.effects)]
\* the run that is not cancelled returned in this step
RunReturned(kind) ==
    /\ page'.run.kind = kind /\ page'.run.pc = "done" /\ ~page'.run.cancelled
    /\ page'.run # page.run

\* the change of the stored phase in a step is one of the transitions
C36_Transition ==
    \/ /\ stored.phase = "call-to-action" /\ stored'.phase = "trigger-signup"
       /\ ~Falsy(stored.attributionId)
       /\ ~page.showBillingSetupModal /\ page'.showBillingSetupModal
       /\ page'.run = IF LiveRun(page) THEN NoRun ELSE page.run
    \/ /\ stored.phase = "call-to-action" /\ stored'.phase = "done"
       /\ RunReturned("call-to-action")
       /\ LastEffect(page'.run) \in {Ev("fetch", "missing"), Ev("fetch", "ended")}
    \/ /\ stored.phase = "trigger-signup" /\ stored'.phase = "wait-for-signup"
       /\ RunReturned("trigger-signup")
    \/ /\ stored.phase = "trigger-signup" /\ stored'.phase = "cleanup"
       /\ RunReturned("trigger-signup")
    \/ /\ stored.phase = "wait-for-signup" /\ stored'.phase = "cleanup"
       /\ RunReturned("wait-for-signup")
    \/ /\ stored.phase = "cleanup" /\ stored'.phase = "done"
       /\ RunReturned("cleanup")

\* C36: the stored phase changes only from call-to-action to trigger-signup
\* (by the upgrade action, with an attribution id set), from call-to-action
\* to done (by the check of the old subscription), from trigger-signup to
\* wait-for-signup or cleanup, from wait-for-signup to cleanup and from
\* cleanup to done, whatever reloads and remounts happen in between; done is
\* left by nothing
C36_PhaseTransitions ==
    [][stored'.phase # stored.phase => C36_Transition]_vars

\* the page went all the way: reloaded in phase done, with the subscription
\* in place and the old one cancelled
C36_Witness ==
    /\ stored.phase = "done"
    /\ page.mounted /\ page.effect = "ran" /\ page.run.kind = "done"
    /\ server.stripe = "active" /\ server.cancel = "ok"


\* the runs of the page, wanted or cancelled
RunsOf(p) == {p.run} \cup {p.zombies[j] : j \in 1..Len(p.zombies)}
\* the signups of a run that have reached the server
SignupsOf(run) == SelectSeq(run.effects, LAMBDA e : e.op = "subscribed")

\* C37: no subscribeToStripe of the page reaches the server for an
\* attribution id that has a Stripe subscription already
C37_NoSignupWhenSubscribed ==
    \A run \in RunsOf(page) :
        \A i \in 1..Len(SignupsOf(run)) :
            SignupsOf(run)[i].arg.had # "active"


\* the cancel calls a run issued
CancelsOf(run) == SelectSeq(run.effects, LAMBDA e : e.op = "cancel")
\* findStripeSubscriptionId returned a subscription id to the run, as its
\* last call
FoundSubscription(run) ==
    \/ /\ run.kind = "trigger-signup"
       /\ LastEffect(run) = EvFind(0, TRUE, TRUE)
    \/ /\ run.kind = "wait-for-signup"
       /\ run.polled = "found"

\* C38: a cancel call for the old subscription is issued only by the effect
\* in phase cleanup, once, with the call that belongs to the subscription
\* type; phase cleanup is entered only by a run to which
\* findStripeSubscriptionId returned a subscription id; and the step that
\* issues the cancel call sets phase done, which stays when the call fails
C38_CancelOnlyInCleanup ==
    /\ [](/\ \A run \in RunsOf(page) :
                CancelsOf(run) # << >> =>
                    /\ run.kind = "cleanup"
                    /\ run.effects =
                           <<EvCancel(page.params.type, stored.oldSubscriptionId)>>
          /\ server.cancel # "none" => stored.phase = "done")
    /\ [][/\ (CancelsOf(page'.run) # << >> /\ page'.run # page.run) =>
                /\ stored.phase = "cleanup" /\ stored'.phase = "done"
                /\ server.cancel = "none" /\ server'.cancel = "inflight"
          /\ (stored'.phase = "cleanup" /\ stored.phase # "cleanup") =>
                /\ page'.run # page.run
                /\ FoundSubscription(page'.run)
                /\ ~page'.run.cancelled]_vars

\* the cancel call of a team subscription failed, and the phase is done
C38_Witness ==
    /\ server.cancel = "failed"
    /\ stored.phase = "done"
    /\ page.run.kind = "cleanup"
    /\ CancelsOf(page.run) = <<EvCancel(KEY_TEAM2_SUB, "ts2-1")>>


\* the wait-for-signup runs of the page
PollingRuns == {run \in RunsOf(page) : run.kind = "wait-for-signup"}
\* a step of the run in slot k (0: the wanted one) of the page
C39_Moved(k) ==
    /\ k \in Slots(page) /\ k \in Slots(page')
    /\ RunAt(page, k).kind = "wait-for-signup"
    /\ RunAt(page, k).pc # "done"
    /\ RunAt(page', k) # RunAt(page, k)
    /\ RunAt(page', k).kind = "wait-for-signup"
    /\ page'.loaded = page.loaded /\ page'.mounted = page.mounted
    /\ page'.search = page.search

\* C39: a run of the effect in phase wait-for-signup polls
\* findStripeSubscriptionId ten times at most; a poll that fails or finds
\* nothing is followed by the next one up to the tenth; the run that is not
\* cancelled ends by setting phase cleanup when a poll found a subscription
\* id, and by the error message "Could not find the subscription." in phase
\* wait-for-signup otherwise; a cancelled run changes neither the stored
\* state nor the error message
C39_BoundedPolling ==
    /\ [](\A run \in PollingRuns : run.i >= 1 /\ run.i <= 10)
    /\ [][\A k \in Slots(page) :
             C39_Moved(k) =>
                LET before == RunAt(page, k)
                    after == RunAt(page', k)
                IN  /\ after.i \in {before.i, before.i + 1}
                    /\ (before.pc = "poll" /\ after.polled # "found") =>
                           after.pc = "setTimeout"
                    /\ (before.pc = "setTimeout" /\ ~before.cancelled
                        /\ before.i < 10) =>
                           after.pc = "poll" /\ after.i = before.i + 1
                    /\ before.cancelled =>
                           /\ stored' = stored
                           /\ page'.errorMessage = page.errorMessage
                    /\ (after.pc = "done" /\ ~before.cancelled) =>
                           IF after.polled = "found"
                           THEN stored' = [stored EXCEPT !.phase = "cleanup"]
                           ELSE /\ stored' = stored
                                /\ stored.phase = "wait-for-signup"
                                /\ before.i = 10
                                /\ page'.errorMessage = MsgCouldNotFind]_vars

\* the tenth poll failed, as an attempt like the others: the run gave up
\* with the error message
C39_Witness ==
    /\ page.run.kind = "wait-for-signup" /\ page.run.pc = "done"
    /\ page.run.i = 10 /\ page.run.polled = "failed"
    /\ page.errorMessage = MsgCouldNotFind
    /\ stored.phase = "wait-for-signup"


\* a trigger-signup run that got past the two checks of the effect
SigningUp(run) ==
    /\ run.kind = "trigger-signup"
    /\ run.pc # "done" \/ run.effects # << >>

\* C40: the page leaves phase trigger-signup only with an attribution id set
\* and a setup intent id in its parameters, which is there exactly when
\* redirect_status is "succeeded" and setup_intent is given; without one no
\* run looks for a subscription or signs up, whatever the reloads, and in
\* phase trigger-signup the upgrade action is disabled and does nothing
C40_NeedsSetupIntent ==
    /\ [](/\ page.params # NoParams =>
                page.params.setupIntentId =
                    IF page.search.redirect_status = "succeeded"
                       /\ page.search.setup_intent \notin {Absent, ""}
                    THEN page.search.setup_intent
                    ELSE Absent
          /\ \A run \in RunsOf(page) :
                SigningUp(run) =>
                    /\ page.params.setupIntentId # Absent
                    /\ run.setupIntentId = page.params.setupIntentId
                    /\ run.attributionId \notin {Absent, ""}
          /\ stored.phase = "trigger-signup" =>
                /\ UpgradeDisabled(stored)
                /\ onUpgradePlanSteps(stored) = << >>)
    /\ [][(stored.phase = "trigger-signup" /\ stored'.phase # "trigger-signup") =>
             /\ page.params.setupIntentId # Absent
             /\ stored.attributionId \notin {Absent, ""}
             /\ SigningUp(page'.run)]_vars

\* back from Stripe with redirect_status failed: the effect ran in phase
\* trigger-signup and returned at once
C40_Witness ==
    /\ stored.phase = "trigger-signup"
    /\ page.search.redirect_status = "failed"
    /\ page.search.setup_intent = "seti_1"
    /\ page.mounted /\ page.effect = "ran"
    /\ page.run.kind = "trigger-signup"
    /\ page.run.pc = "done" /\ page.run.effects = << >>
    /\ page.zombies = << >>

=============================================================================
